---------------------------- MODULE Spec2Model ----------------------------
(***************************************************************************)
(* Job-matching backend (job_scraping_app): the Job Store                  *)
(* (app/db/crud_jobs.py), the Match Store (app/db/crud_matched_jobs.py),   *)
(* the Claimant Profile Store (app/db/crud_claimant.py), the keyword       *)
(* extractor and the matching engine (app/services/ai_matcher.py) and the  *)
(* scraper ingestion loop (app/services/scraper.py).                       *)
(*                                                                         *)
(* A text is a sequence of one-character strings.  An optional value       *)
(* (Python None / SQL NULL) is the empty tuple None, a present value x is  *)
(* Some(x) = <<x>>.  Two request handlers run concurrently, each with its  *)
(* own SQLAlchemy session; a step of the model is one database round trip  *)
(* of one handler together with the local computation around it.           *)
(***************************************************************************)
EXTENDS Integers, Sequences, FiniteSets, TLC

None == <<>>
Some(x) == <<x>>

\* Python truthiness of an optional text: None and "" are falsy.
Truthy(o) == o # None /\ o[1] # <<>>

\* Python (x or ""): the text, or the empty text for None.
OrEmpty(o) == IF o = None THEN <<>> ELSE o[1]

Range(s) == {s[i] : i \in DOMAIN s}

-----------------------------------------------------------------------------
(* Text primitives used by the extractor and the matching engine.          *)

UpperLetters ==
  <<"A","B","C","D","E","F","G","H","I","J","K","L","M",
    "N","O","P","Q","R","S","T","U","V","W","X","Y","Z">>

LowerLetters ==
  <<"a","b","c","d","e","f","g","h","i","j","k","l","m",
    "n","o","p","q","r","s","t","u","v","w","x","y","z">>

\* string.punctuation (its backquote cannot be written in a TLA+ string and
\* occurs in no text of the model)
Punctuation ==
  {"!", "\"", "#", "$", "%", "&", "'", "(", ")", "*", "+", ",", "-", ".", "/",
   ":", ";", "<", "=", ">", "?", "@", "[", "\\", "]", "^", "_", "{", "|", "}",
   "~"}

\* the characters str.split() and str.strip() treat as whitespace
Whitespace == {" ", "\t", "\n", "\r"}

LowerChar(c) ==
  IF \E i \in DOMAIN UpperLetters : UpperLetters[i] = c
  THEN LowerLetters[CHOOSE i \in DOMAIN UpperLetters : UpperLetters[i] = c]
  ELSE c

\* fault: the text is not lowercased
LowerKeepsCase(s) == s

\* str.lower()
Lower(s) == [i \in DOMAIN s |-> LowerChar(s[i])]

\* fault: punctuation is deleted instead of replaced by a space
StripPunctuationDeletes(s) == SelectSeq(s, LAMBDA c : c \notin Punctuation)

\* re.sub(f"[{re.escape(string.punctuation)}]", " ", text)
StripPunctuation(s) == [i \in DOMAIN s |-> IF s[i] \in Punctuation THEN " " ELSE s[i]]

\* str.split(): the maximal runs of non-whitespace characters, in order.
RECURSIVE SplitFrom(_, _, _)
SplitFrom(s, i, cur) ==
  IF i > Len(s)
  THEN IF cur = <<>> THEN <<>> ELSE <<cur>>
  ELSE IF s[i] \in Whitespace
       THEN IF cur = <<>> THEN SplitFrom(s, i + 1, <<>>)
                          ELSE <<cur>> \o SplitFrom(s, i + 1, <<>>)
       ELSE SplitFrom(s, i + 1, Append(cur, s[i]))

Split(s) == SplitFrom(s, 1, <<>>)

\* str.split(','): the pieces between commas, empty pieces kept.
RECURSIVE SplitCommaFrom(_, _, _)
SplitCommaFrom(s, i, cur) ==
  IF i > Len(s)
  THEN <<cur>>
  ELSE IF s[i] = ","
       THEN <<cur>> \o SplitCommaFrom(s, i + 1, <<>>)
       ELSE SplitCommaFrom(s, i + 1, Append(cur, s[i]))

SplitComma(s) == SplitCommaFrom(s, 1, <<>>)

\* str.strip(): leading and trailing whitespace removed.
Strip(s) ==
  LET keep == {i \in DOMAIN s : s[i] \notin Whitespace}
  IN  IF keep = {} THEN <<>>
      ELSE LET lo == CHOOSE i \in keep : \A j \in keep : i <= j
               hi == CHOOSE i \in keep : \A j \in keep : j <= i
           IN  SubSeq(s, lo, hi)

\* Python (needle in hay) on strings.
Contains(hay, needle) ==
  \E i \in 0..(Len(hay) - Len(needle)) : SubSeq(hay, i + 1, i + Len(needle)) = needle

-----------------------------------------------------------------------------
(* Keyword extractor.                                                      *)

DEFAULT_STOP_WORDS ==
  {
    <<"a">>, <<"a","n">>, <<"t","h","e">>, <<"i","s">>, <<"a","r","e">>, <<"w","a","s">>,
    <<"w","e","r","e">>, <<"b","e">>, <<"b","e","e","n">>, <<"b","e","i","n","g">>,
    <<"h","a","v","e">>, <<"h","a","s">>, <<"h","a","d">>, <<"d","o">>, <<"d","o","e","s">>,
    <<"d","i","d">>, <<"w","i","l","l">>, <<"w","o","u","l","d">>, <<"s","h","o","u","l","d">>,
    <<"c","a","n">>, <<"c","o","u","l","d">>, <<"m","a","y">>, <<"m","i","g","h","t">>,
    <<"m","u","s","t">>, <<"a","n","d">>, <<"b","u","t">>, <<"o","r">>, <<"n","o","r">>,
    <<"f","o","r">>, <<"s","o">>, <<"y","e","t">>, <<"i","n">>, <<"o","n">>, <<"a","t">>,
    <<"b","y">>, <<"f","r","o","m">>, <<"t","o">>, <<"w","i","t","h">>, <<"a","b","o","u","t">>,
    <<"a","b","o","v","e">>, <<"a","f","t","e","r">>, <<"a","g","a","i","n">>,
    <<"a","g","a","i","n","s","t">>, <<"a","l","l">>, <<"a","m">>, <<"a","s">>,
    <<"b","e","c","a","u","s","e">>, <<"b","e","f","o","r","e">>, <<"b","e","l","o","w">>,
    <<"b","e","t","w","e","e","n">>, <<"b","o","t","h">>, <<"d","u","r","i","n","g">>,
    <<"e","a","c","h">>, <<"f","e","w">>, <<"f","u","r","t","h","e","r">>, <<"h","e","r","e">>,
    <<"h","o","w">>, <<"i">>, <<"i","f">>, <<"i","n","t","o">>, <<"i","t">>, <<"i","t","s">>,
    <<"i","t","s","e","l","f">>, <<"j","u","s","t">>, <<"m","e">>, <<"m","o","r","e">>,
    <<"m","o","s","t">>, <<"m","y">>, <<"m","y","s","e","l","f">>, <<"n","o">>, <<"n","o","t">>,
    <<"n","o","w">>, <<"o","f">>, <<"o","f","f">>, <<"o","n","c","e">>, <<"o","n","l","y">>,
    <<"o","t","h","e","r">>, <<"o","u","r">>, <<"o","u","r","s">>,
    <<"o","u","r","s","e","l","v","e","s">>, <<"o","u","t">>, <<"o","v","e","r">>,
    <<"o","w","n">>, <<"s","a","m","e">>, <<"s","h","e">>, <<"h","e">>, <<"t","h","e","y">>,
    <<"t","h","e","m">>, <<"t","h","e","i","r">>, <<"t","h","e","i","r","s">>,
    <<"t","h","e","m","s","e","l","v","e","s">>, <<"t","h","e","n">>, <<"t","h","e","r","e">>,
    <<"t","h","e","s","e">>, <<"t","h","i","s">>, <<"t","h","o","s","e">>,
    <<"t","h","r","o","u","g","h">>, <<"t","o","o">>, <<"u","n","d","e","r">>,
    <<"u","n","t","i","l">>, <<"u","p">>, <<"v","e","r","y">>, <<"w","e">>, <<"w","h","a","t">>,
    <<"w","h","e","n">>, <<"w","h","e","r","e">>, <<"w","h","i","c","h">>,
    <<"w","h","i","l","e">>, <<"w","h","o">>, <<"w","h","o","m">>, <<"w","h","y">>,
    <<"y","o","u">>, <<"y","o","u","r">>, <<"y","o","u","r","s">>,
    <<"y","o","u","r","s","e","l","f">>, <<"y","o","u","r","s","e","l","v","e","s">>,
    <<"c","v">>, <<"r","e","s","u","m","e">>, <<"j","o","b">>, <<"r","o","l","e">>,
    <<"o","p","p","o","r","t","u","n","i","t","y">>, <<"c","o","m","p","a","n","y">>,
    <<"e","x","p","e","r","i","e","n","c","e">>, <<"w","o","r","k">>,
    <<"s","k","i","l","l","s">>, <<"r","e","q","u","i","r","e","d">>,
    <<"r","e","s","p","o","n","s","i","b","i","l","i","t","i","e","s">>,
    <<"d","u","t","i","e","s">>, <<"s","a","l","a","r","y">>,
    <<"l","o","c","a","t","i","o","n">>, <<"c","o","n","t","r","a","c","t">>,
    <<"p","e","r","m","a","n","e","n","t">>, <<"t","e","m","p","o","r","a","r","y">>,
    <<"f","u","l","l","-","t","i","m","e">>, <<"p","a","r","t","-","t","i","m","e">>,
    <<"l","o","n","d","o","n">>, <<"u","k">>, <<"r","e","m","o","t","e">>
  }

MinKeywordLen == 3

\* Keywords of an optional text: lowercase, punctuation to spaces, split on
\* whitespace, stop words and words shorter than three characters dropped.
extract_keywords_from_text(text) ==
  IF ~Truthy(text) THEN {}
  ELSE LET words == Split(StripPunctuation(Lower(text[1])))
       IN  {w \in Range(words) : w \notin DEFAULT_STOP_WORDS /\ Len(w) >= MinKeywordLen}

-----------------------------------------------------------------------------
(* Texts of the modelled rows and payloads.                                *)

TxtCvLower == <<"c","v">>   \* 'cv'

TxtCV == <<"C","V">>   \* 'CV'

TxtCoverLetter == <<"C","o","v","e","r"," ","L","e","t","t","e","r">>   \* 'Cover Letter'

TxtAnnKeywords == <<"S","q","l",","," ">>   \* 'Sql, '

TxtAnnCv == <<"A","W","S","-","d","e","v",".">>   \* 'AWS-dev.'

TxtBobCv == <<"s","q","l"," ","a","p","i">>   \* 'sql api'

TxtBobLetter == <<"a","w","s"," ","d","e","v">>   \* 'aws dev'

TxtEly == <<"E","l","y">>   \* 'Ely'

TxtCyKeywords == <<" ",","," ">>   \* ' , '

TxtSqlApi == <<"S","q","l"," ","A","p","i">>   \* 'Sql Api'

TxtAwsDev == <<"a","w","s"," ","d","e","v">>   \* 'aws dev'

TxtSqlDev == <<"S","q","l"," ","D","e","v">>   \* 'Sql Dev'

TxtApi == <<"a","p","i","!">>   \* 'api!'

TxtElyUk == <<"E","L","Y",","," ","U","K">>   \* 'ELY, UK'

TxtSqlApiNew == <<"S","Q","L","/","A","P","I">>   \* 'SQL/API'

TxtNA == <<"N","/","A">>   \* 'N/A'

TxtTheRole == <<"t","h","e"," ","r","o","l","e">>   \* 'the role'

TxtBath == <<"B","a","t","h">>   \* 'Bath'

-----------------------------------------------------------------------------
(* Bounds and program constants.                                           *)

\* requests served in one behaviour
MaxRequests == 3

\* MIN_MATCH_SCORE
MIN_MATCH_SCORE == 2

\* the page size match_jobs_for_claimant passes to get_job_postings
JobFetchLimit == 10000

\* the number of common keywords the advisor notes list
NotesKeywordLimit == 5

Sessions == {"s1", "s2"}

Min(a, b) == IF a <= b THEN a ELSE b

\* The sequences that list every element of a finite set exactly once.
Perms(S) ==
  {f \in [1..Cardinality(S) -> S] : \A i, j \in 1..Cardinality(S) : i # j => f[i] # f[j]}

-----------------------------------------------------------------------------
(* Rows the persistent store holds when the service starts, and the        *)
(* payloads its callers send.                                              *)

\* claimants table: registered claimants 1..3 (no claimant has id 4)
SeedClaimants ==
  << [id |-> 1, name |-> "Ann", email |-> "ann@example.com",
      phone_number |-> None, notes |-> None, updated_at |-> 0,
      target_location |-> None, search_keywords |-> Some(TxtAnnKeywords)],
     [id |-> 2, name |-> "Bob", email |-> "bob@example.com",
      phone_number |-> None, notes |-> None, updated_at |-> 0,
      target_location |-> Some(TxtEly), search_keywords |-> None],
     [id |-> 3, name |-> "Cy", email |-> "cy@example.com",
      phone_number |-> None, notes |-> None, updated_at |-> 0,
      target_location |-> None, search_keywords |-> Some(TxtCyKeywords)] >>

\* claimant_documents table
SeedDocuments ==
  << [id |-> 1, claimant_id |-> 1, document_type |-> TxtCV,
      raw_text_content |-> Some(TxtAnnCv)],
     [id |-> 2, claimant_id |-> 2, document_type |-> TxtCvLower,
      raw_text_content |-> Some(TxtBobCv)],
     [id |-> 3, claimant_id |-> 2, document_type |-> TxtCoverLetter,
      raw_text_content |-> Some(TxtBobLetter)],
     [id |-> 4, claimant_id |-> 3, document_type |-> TxtCV,
      raw_text_content |-> None],
     [id |-> 5, claimant_id |-> 3, document_type |-> TxtCoverLetter,
      raw_text_content |-> Some(TxtBobCv)] >>

\* job_postings table: one withdrawn posting that shares every keyword with
\* claimants 1 and 2 and lies in claimant 2's target location
SeedJobs ==
  << [id |-> 1, title |-> TxtSqlApi, company_name |-> "Acme", location |-> Some(TxtEly),
      description |-> Some(TxtAwsDev), job_url |-> "https://jobs.example/0",
      source_website |-> "Reed.co.uk", date_scraped |-> 0, date_posted |-> None,
      is_active |-> FALSE] >>

ClaimantIds == {1, 2, 3, 4}

\* job_data dicts handed to create_job_posting
JobDataA ==
  [title |-> TxtSqlDev, company_name |-> "Acme", location |-> Some(TxtElyUk),
   description_snippet |-> Some(TxtApi), job_url |-> "https://jobs.example/1",
   source_website |-> "Reed.co.uk", date_posted |-> None]

\* the same URL as JobDataA, every other field different
JobDataA2 ==
  [title |-> TxtSqlApiNew, company_name |-> "N/A", location |-> None,
   description_snippet |-> Some(TxtNA), job_url |-> "https://jobs.example/1",
   source_website |-> "Example.com", date_posted |-> Some(18)]

JobDataB ==
  [title |-> TxtSqlApi, company_name |-> "Bolt", location |-> Some(TxtBath),
   description_snippet |-> Some(TxtTheRole), job_url |-> "https://jobs.example/2",
   source_website |-> "Reed.co.uk", date_posted |-> None]

JobPayloads == {JobDataA, JobDataA2, JobDataB}

\* a scraped card with the URL of JobDataA whose company, location and
\* description were not found on the page
ScrapedA2 ==
  [title |-> TxtSqlApiNew, company_name |-> "N/A", location |-> Some(TxtNA),
   description_snippet |-> Some(TxtNA), job_url |-> "https://jobs.example/1",
   source_website |-> "Reed.co.uk", date_posted |-> None]

\* lists scrape_reed_uk_jobs may return
ScrapeResults == {<<>>, <<JobDataA, ScrapedA2>>, <<JobDataB>>}

\* advisor notes: the parts of the notes text
ManualNotes == [score |-> 9, keywords |-> <<>>, location |-> None]

\* MatchedJobCreate payloads handed to create_matched_job by a direct caller
MatchPayloads ==
  { [claimant_id |-> 1, job_posting_id |-> 2, match_score |-> 9, status |-> "reviewed",
     notes_for_advisor |-> Some(ManualNotes)],
    [claimant_id |-> 1, job_posting_id |-> 2, match_score |-> 5, status |-> "new",
     notes_for_advisor |-> None] }

Requests ==
  {[kind |-> "match", claimant_id |-> c] : c \in ClaimantIds}
    \cup {[kind |-> "upsert", match |-> m] : m \in MatchPayloads}
    \cup {[kind |-> "create_job", job_data |-> d] : d \in JobPayloads}
    \cup {[kind |-> "scrape", jobs |-> l] : l \in ScrapeResults}

-----------------------------------------------------------------------------
VARIABLES
  claimants,            \* claimants table
  claimant_documents,   \* claimant_documents table
  job_postings,         \* job_postings table, rows in insertion order
  matched_jobs,         \* matched_jobs table, rows in insertion order
  now,                  \* the clock datetime.utcnow() reads
  pc,                   \* where each session's handler stands
  req,                  \* the request each session serves
  local,                \* the handler's local variables
  needs_rollback,       \* the session's transaction failed in a flush
  result,               \* what the handler returned
  err,                  \* the exception that left the handler, if any
  nreq,                 \* requests started so far
  created_urls          \* URLs for which create_job_posting returned True

vars ==
  <<claimants, claimant_documents, job_postings, matched_jobs, now, pc, req, local,
    needs_rollback, result, err, nreq, created_urls>>

tables == <<claimants, claimant_documents, job_postings, matched_jobs>>

-----------------------------------------------------------------------------
(* Queries and constraints of the store.                                   *)

\* Query.first() of a filter: the matching row, or None.
First(rows) == IF rows = <<>> THEN None ELSE Some(Head(rows))

get_claimant(claimant_id) ==
  LET ById(r) == r.id = claimant_id IN First(SelectSeq(claimants, ById))

\* claimant.documents: the documents the claimant owns
DocumentsOf(claimant_id) ==
  LET Owned(d) == d.claimant_id = claimant_id IN SelectSeq(claimant_documents, Owned)

get_job_posting_by_url(job_url) ==
  LET ByUrl(r) == r.job_url = job_url IN First(SelectSeq(job_postings, ByUrl))

\* fault: the lookup filters on the posting only
get_matched_job_by_job_posting(claimant_id, job_posting_id) ==
  LET ByJob(r) == r.job_posting_id = job_posting_id
  IN  First(SelectSeq(matched_jobs, ByJob))

get_matched_job_by_claimant_and_job_posting(claimant_id, job_posting_id) ==
  LET ByPair(r) == r.claimant_id = claimant_id /\ r.job_posting_id = job_posting_id
  IN  First(SelectSeq(matched_jobs, ByPair))

\* the largest table whose row orders are all enumerated
MaxEnumeratedRows == 4

\* The orders in which a query without ORDER BY may return the rows: every
\* order of a small table; of a larger table only the insertion order is
\* followed.
QueryOrders(rows) ==
  IF Len(rows) > MaxEnumeratedRows
  THEN {rows}
  ELSE {[i \in DOMAIN rows |-> rows[p[i]]] : p \in Perms(DOMAIN rows)}

\* get_job_postings(db, skip, limit): OFFSET/LIMIT over an unordered query
get_job_postings(skip, limit) ==
  {SubSeq(o, skip + 1, Min(Len(o), skip + limit)) : o \in QueryOrders(job_postings)}

\* get_matched_jobs_for_claimant(db, claimant_id, skip, limit): OFFSET/LIMIT
\* over an unordered query of the claimant's matches
get_matched_jobs_for_claimant(claimant_id, skip, limit) ==
  LET Mine(r) == r.claimant_id = claimant_id
  IN  {SubSeq(o, skip + 1, Min(Len(o), skip + limit)) :
         o \in QueryOrders(SelectSeq(matched_jobs, Mine))}

\* fault: the table lacks the unique constraint on the pair
uq_claimant_job_match_off(row) == TRUE

\* UniqueConstraint('claimant_id', 'job_posting_id'): may the row be inserted?
uq_claimant_job_match(row) ==
  \A r \in Range(matched_jobs) :
    ~(r.claimant_id = row.claimant_id /\ r.job_posting_id = row.job_posting_id)

\* ForeignKey("claimants.id") and ForeignKey("job_postings.id") of matched_jobs
fk_matched_job(row) ==
  /\ \E c \in Range(claimants) : c.id = row.claimant_id
  /\ \E j \in Range(job_postings) : j.id = row.job_posting_id

\* fault: the job_url column lacks its unique index
uq_job_url_off(row) == TRUE

\* job_url = Column(..., unique=True): may the row be inserted?
uq_job_url(row) == \A r \in Range(job_postings) : r.job_url # row.job_url

-----------------------------------------------------------------------------
(* Matching engine: the pure parts of match_jobs_for_claimant.             *)

\* fault: the type tag of the document is not looked at
AggregateCvAnyType(docs, i) ==
  LET Text(k) == IF Truthy(docs[k].raw_text_content)
                 THEN <<" ">> \o docs[k].raw_text_content[1] ELSE <<>>
      Joined[k \in 1..(Len(docs) + 1)] ==
        IF k > Len(docs) THEN <<>> ELSE Text(k) \o Joined[k + 1]
  IN  Joined[i]

\* cv_text before strip(): " " + raw text of every CV document with text
RECURSIVE AggregateCv(_, _)
AggregateCv(docs, i) ==
  IF i > Len(docs) THEN <<>>
  ELSE LET doc == docs[i]
       IN  (IF /\ doc.document_type # <<>>
               /\ Lower(doc.document_type) = TxtCvLower
               /\ Truthy(doc.raw_text_content)
            THEN <<" ">> \o doc.raw_text_content[1]
            ELSE <<>>) \o AggregateCv(docs, i + 1)

cv_keywords(claimant_id) ==
  extract_keywords_from_text(Some(Strip(AggregateCv(DocumentsOf(claimant_id), 1))))

\* fault: the entries are trimmed but keep their case
explicit_keyword_set_keeps_case(search_keywords) ==
  IF ~Truthy(search_keywords) THEN {}
  ELSE {Strip(kw) : kw \in {k \in Range(SplitComma(search_keywords[1])) : Strip(k) # <<>>}}

\* the claimant's comma-separated search_keywords, trimmed and lowercased
explicit_keyword_set(search_keywords) ==
  IF ~Truthy(search_keywords) THEN {}
  ELSE {Lower(Strip(kw)) : kw \in {k \in Range(SplitComma(search_keywords[1])) : Strip(k) # <<>>}}

final_claimant_keywords(claimant) ==
  cv_keywords(claimant.id) \cup explicit_keyword_set(claimant.search_keywords)

\* fault: the location filter is skipped
LocationPassesAlways(target_location, job) == TRUE

\* the location filter: does the loop go on to score this job?
LocationPasses(target_location, job) ==
  IF Truthy(target_location)
  THEN Contains(Lower(OrEmpty(job.location)), Lower(target_location[1]))
  ELSE TRUE

job_keywords(job) ==
  extract_keywords_from_text(Some(Lower(job.title \o <<" ">> \o OrEmpty(job.description))))

common_keywords(kw, job) == kw \cap job_keywords(job)

\* fault: the threshold is one common keyword
QualifiesAtOne(kw, target_location, job) ==
  /\ job.is_active
  /\ LocationPasses(target_location, job)
  /\ Cardinality(common_keywords(kw, job)) >= 1

\* fault: withdrawn postings are scored like active ones
QualifiesInactive(kw, target_location, job) ==
  /\ LocationPasses(target_location, job)
  /\ Cardinality(common_keywords(kw, job)) >= MIN_MATCH_SCORE

\* the job passes the activity filter, the location filter and the threshold
Qualifies(kw, target_location, job) ==
  /\ job.is_active
  /\ LocationPasses(target_location, job)
  /\ Cardinality(common_keywords(kw, job)) >= MIN_MATCH_SCORE

\* fault: the notes list every common keyword
NotesListAll(score, order, target_location) ==
  [score |-> score,
   keywords |-> order,
   location |-> IF Truthy(target_location) THEN target_location ELSE None]

\* The advisor notes: the score, the first keywords of list(common_keywords)
\* taken in the given iteration order, and the location note when a target
\* location is set.
Notes(score, order, target_location) ==
  [score |-> score,
   keywords |-> SubSeq(order, 1, Min(Len(order), NotesKeywordLimit)),
   location |-> IF Truthy(target_location) THEN target_location ELSE None]

\* MatchedJobCreate(...) built for a qualifying job
MatchData(claimant_id, job, score, notes) ==
  [claimant_id |-> claimant_id, job_posting_id |-> job.id, match_score |-> score,
   status |-> "new", notes_for_advisor |-> Some(notes)]

-----------------------------------------------------------------------------
(* Sessions.                                                               *)

InitLocal ==
  [kw |-> {}, target |-> None, all_jobs |-> None, idx |-> 0, created |-> <<>>,
   match |-> None, existing |-> None, ts |-> 0, job_data |-> None,
   new_jobs_added |-> 0, existing_jobs_skipped |-> 0, logged |-> <<>>]

Init ==
  /\ claimants = SeedClaimants
  /\ claimant_documents = SeedDocuments
  /\ job_postings = SeedJobs
  /\ matched_jobs = <<>>
  /\ now = 1
  /\ pc = [p \in Sessions |-> "idle"]
  /\ req = [p \in Sessions |-> None]
  /\ local = [p \in Sessions |-> InitLocal]
  /\ needs_rollback = [p \in Sessions |-> FALSE]
  /\ result = [p \in Sessions |-> None]
  /\ err = [p \in Sessions |-> None]
  /\ nreq = 0
  /\ created_urls = {j.job_url : j \in Range(SeedJobs)}

\* the handler of session p returns value v
Return(p, v) ==
  /\ pc' = [pc EXCEPT ![p] = "done"]
  /\ result' = [result EXCEPT ![p] = Some(v)]
  /\ err' = err

\* exception e leaves the handler of session p
Raise(p, e) ==
  /\ pc' = [pc EXCEPT ![p] = "done"]
  /\ result' = result
  /\ err' = [err EXCEPT ![p] = Some(e)]

\* Request r arrives at session p: get_db() opens a fresh session and the
\* handler starts.
Begin(p, r) ==
  /\ pc[p] \in {"idle", "done"}
  /\ nreq < MaxRequests
  /\ req' = [req EXCEPT ![p] = r]
  /\ pc' = [pc EXCEPT ![p] =
              CASE r.kind = "match" -> "match_load"
                [] r.kind = "upsert" -> "cm_lookup"
                [] r.kind = "create_job" -> "cj_lookup"
                [] r.kind = "scrape" -> "scrape_loop"
                [] r.kind = "update_claimant" -> "uc_load"
                [] r.kind = "add_document" -> "ud_check"
                [] r.kind = "list_jobs" -> "list_jobs"
                [] r.kind = "list_matches" -> "list_matches"]
  /\ local' = [local EXCEPT ![p] =
              CASE r.kind = "match" -> InitLocal
                [] r.kind = "upsert" -> [InitLocal EXCEPT !.match = Some(r.match)]
                [] r.kind = "create_job" -> [InitLocal EXCEPT !.job_data = Some(r.job_data)]
                [] r.kind = "scrape" -> [InitLocal EXCEPT !.idx = 1]
                [] r.kind \in {"update_claimant", "add_document",
                               "list_jobs", "list_matches"} -> InitLocal]
  /\ needs_rollback' = [needs_rollback EXCEPT ![p] = FALSE]
  /\ result' = [result EXCEPT ![p] = None]
  /\ err' = [err EXCEPT ![p] = None]
  /\ nreq' = nreq + 1
  /\ UNCHANGED <<tables, now, created_urls>>

StartRequest(p) == \E r \in Requests : Begin(p, r)

-----------------------------------------------------------------------------
(* match_jobs_for_claimant                                                 *)

\* fault: a claimant without keywords goes on to the job pool
MatchLoadNoEarlyReturn(p) ==
  /\ pc[p] = "match_load"
  /\ LET claimant == get_claimant(req[p].claimant_id)
     IN  IF claimant = None
         THEN Return(p, <<>>) /\ local' = local
         ELSE /\ local' = [local EXCEPT ![p].kw = final_claimant_keywords(claimant[1]),
                                        ![p].target = claimant[1].target_location]
              /\ pc' = [pc EXCEPT ![p] = "match_fetch"]
              /\ UNCHANGED <<result, err>>
  /\ UNCHANGED <<tables, now, req, needs_rollback, nreq, created_urls>>

\* fault: an absent claimant is reported as an error
MatchLoadRaises(p) ==
  /\ pc[p] = "match_load"
  /\ LET claimant == get_claimant(req[p].claimant_id)
     IN  IF claimant = None
         THEN Raise(p, "ClaimantNotFound") /\ local' = local
         ELSE LET kw == final_claimant_keywords(claimant[1])
              IN  IF kw = {}
                  THEN Return(p, <<>>) /\ local' = local
                  ELSE /\ local' = [local EXCEPT ![p].kw = kw,
                                                 ![p].target = claimant[1].target_location]
                       /\ pc' = [pc EXCEPT ![p] = "match_fetch"]
                       /\ UNCHANGED <<result, err>>
  /\ UNCHANGED <<tables, now, req, needs_rollback, nreq, created_urls>>

\* Load the claimant and derive the keywords; return [] when the claimant is
\* absent or has no keyword.
MatchLoad(p) ==
  /\ pc[p] = "match_load"
  /\ LET claimant == get_claimant(req[p].claimant_id)
     IN  IF claimant = None
         THEN Return(p, <<>>) /\ local' = local
         ELSE LET kw == final_claimant_keywords(claimant[1])
              IN  IF kw = {}
                  THEN Return(p, <<>>) /\ local' = local
                  ELSE /\ local' = [local EXCEPT ![p].kw = kw,
                                                 ![p].target = claimant[1].target_location]
                       /\ pc' = [pc EXCEPT ![p] = "match_fetch"]
                       /\ UNCHANGED <<result, err>>
  /\ UNCHANGED <<tables, now, req, needs_rollback, nreq, created_urls>>

\* all_jobs = get_job_postings(db=db, limit=10000)
MatchFetch(p) ==
  /\ pc[p] = "match_fetch"
  /\ \E jobs \in get_job_postings(0, JobFetchLimit) :
       local' = [local EXCEPT ![p].all_jobs = Some(jobs), ![p].idx = 1]
  /\ pc' = [pc EXCEPT ![p] = "match_loop"]
  /\ UNCHANGED <<tables, now, req, needs_rollback, result, err, nreq, created_urls>>

\* One iteration of the loop over all_jobs up to the call of
\* create_matched_job, or the return of created_matches after the last job.
MatchLoop(p) ==
  /\ pc[p] = "match_loop"
  /\ LET jobs == local[p].all_jobs[1]
         i == local[p].idx
     IN  IF i > Len(jobs)
         THEN Return(p, local[p].created) /\ local' = local
         ELSE IF ~Qualifies(local[p].kw, local[p].target, jobs[i])
              THEN /\ local' = [local EXCEPT ![p].idx = i + 1]
                   /\ UNCHANGED <<pc, result, err>>
              ELSE LET common == common_keywords(local[p].kw, jobs[i])
                   IN  \E order \in Perms(common) :
                         /\ local' = [local EXCEPT ![p].match =
                                        Some(MatchData(req[p].claimant_id, jobs[i],
                                                       Cardinality(common),
                                                       Notes(Cardinality(common), order,
                                                             local[p].target)))]
                         /\ pc' = [pc EXCEPT ![p] = "cm_lookup"]
                         /\ UNCHANGED <<result, err>>
  /\ UNCHANGED <<tables, now, req, needs_rollback, nreq, created_urls>>

-----------------------------------------------------------------------------
(* create_matched_job                                                      *)

\* fault: the matching loop puts the record in front of created_matches
CmReturnPrepends(p, row) ==
  IF req[p].kind = "match"
  THEN /\ local' = [local EXCEPT ![p].created = <<row>> \o @, ![p].idx = @ + 1,
                                 ![p].match = None, ![p].existing = None, ![p].ts = 0]
       /\ pc' = [pc EXCEPT ![p] = "match_loop"]
       /\ UNCHANGED <<result, err>>
  ELSE /\ local' = [local EXCEPT ![p].existing = None, ![p].ts = 0]
       /\ Return(p, row)

\* create_matched_job returns row to its caller: the matching loop appends it
\* to created_matches, a direct caller receives it.
CmReturn(p, row) ==
  IF req[p].kind = "match"
  THEN /\ local' = [local EXCEPT ![p].created = Append(@, row), ![p].idx = @ + 1,
                                 ![p].match = None, ![p].existing = None, ![p].ts = 0]
       /\ pc' = [pc EXCEPT ![p] = "match_loop"]
       /\ UNCHANGED <<result, err>>
  ELSE /\ local' = [local EXCEPT ![p].existing = None, ![p].ts = 0]
       /\ Return(p, row)

\* create_matched_job raises e: the matching loop logs it and goes on to the
\* next job, a direct caller receives it.
CmRaise(p, e) ==
  IF req[p].kind = "match"
  THEN /\ local' = [local EXCEPT ![p].logged = Append(@, <<local[p].match[1].job_posting_id, e>>),
                                 ![p].idx = @ + 1,
                                 ![p].match = None, ![p].existing = None, ![p].ts = 0]
       /\ pc' = [pc EXCEPT ![p] = "match_loop"]
       /\ UNCHANGED <<result, err>>
  ELSE /\ local' = [local EXCEPT ![p].existing = None, ![p].ts = 0]
       /\ Raise(p, e)

\* The lookup by (claimant_id, job_posting_id); for an existing match the
\* attributes are set and the new match_date is read from the clock.  A
\* session whose transaction failed raises on every further query.
CmLookup(p) ==
  /\ pc[p] = "cm_lookup"
  /\ LET match == local[p].match[1]
         existing_match == get_matched_job_by_claimant_and_job_posting(
                             match.claimant_id, match.job_posting_id)
     IN  IF needs_rollback[p]
         THEN CmRaise(p, "PendingRollbackError") /\ now' = now
         ELSE IF existing_match # None
              THEN /\ local' = [local EXCEPT ![p].existing = existing_match, ![p].ts = now]
                   /\ now' = now + 1
                   /\ pc' = [pc EXCEPT ![p] = "cm_commit"]
                   /\ UNCHANGED <<result, err>>
              ELSE /\ local' = [local EXCEPT ![p].existing = None]
                   /\ now' = now
                   /\ pc' = [pc EXCEPT ![p] = "cm_commit"]
                   /\ UNCHANGED <<result, err>>
  /\ UNCHANGED <<tables, req, needs_rollback, nreq, created_urls>>

\* fault: the update leaves the status as it was
UpdatedMatchKeepsStatus(stored, loaded, match, ts) ==
  [stored EXCEPT
     !.match_score = IF match.match_score # loaded.match_score
                     THEN match.match_score ELSE @,
     !.notes_for_advisor = IF match.notes_for_advisor # loaded.notes_for_advisor
                           THEN match.notes_for_advisor ELSE @,
     !.match_date = IF ts # loaded.match_date THEN ts ELSE @]

\* fault: the update adds the new score to the stored one
UpdatedMatchAddsScore(stored, loaded, match, ts) ==
  [stored EXCEPT
     !.match_score = @ + match.match_score,
     !.status = IF match.status # loaded.status THEN match.status ELSE @,
     !.notes_for_advisor = IF match.notes_for_advisor # loaded.notes_for_advisor
                           THEN match.notes_for_advisor ELSE @,
     !.match_date = IF ts # loaded.match_date THEN ts ELSE @]

\* The row an UPDATE of the loaded match leaves in the table: the flush writes
\* the attributes whose new value differs from the value the session loaded.
UpdatedMatch(stored, loaded, match, ts) ==
  [stored EXCEPT
     !.match_score = IF match.match_score # loaded.match_score
                     THEN match.match_score ELSE @,
     !.status = IF match.status # loaded.status THEN match.status ELSE @,
     !.notes_for_advisor = IF match.notes_for_advisor # loaded.notes_for_advisor
                           THEN match.notes_for_advisor ELSE @,
     !.match_date = IF ts # loaded.match_date THEN ts ELSE @]

\* The row an INSERT adds: a fresh id, match_date from the column default.
NewMatch(match) ==
  [id |-> Len(matched_jobs) + 1, claimant_id |-> match.claimant_id,
   job_posting_id |-> match.job_posting_id, match_score |-> match.match_score,
   status |-> match.status, notes_for_advisor |-> match.notes_for_advisor,
   match_date |-> now]

\* db.commit() and db.refresh(db_match): the UPDATE of the existing row, or
\* the INSERT of the new one, which the constraints of the table may refuse.
CmCommit(p) ==
  /\ pc[p] = "cm_commit"
  /\ LET match == local[p].match[1]
     IN  IF local[p].existing # None
         THEN LET loaded == local[p].existing[1]
                  i == CHOOSE k \in DOMAIN matched_jobs : matched_jobs[k].id = loaded.id
                  row == UpdatedMatch(matched_jobs[i], loaded, match, local[p].ts)
              IN  /\ matched_jobs' = [matched_jobs EXCEPT ![i] = row]
                  /\ CmReturn(p, row)
                  /\ UNCHANGED <<now, needs_rollback>>
         ELSE LET row == NewMatch(match)
              IN  IF uq_claimant_job_match(row) /\ fk_matched_job(row)
                  THEN /\ matched_jobs' = Append(matched_jobs, row)
                       /\ now' = now + 1
                       /\ CmReturn(p, row)
                       /\ UNCHANGED needs_rollback
                  ELSE /\ needs_rollback' = [needs_rollback EXCEPT ![p] = TRUE]
                       /\ CmRaise(p, IF fk_matched_job(row)
                                     THEN "IntegrityError(UniqueViolation)"
                                     ELSE "IntegrityError(ForeignKeyViolation)")
                       /\ UNCHANGED <<matched_jobs, now>>
  /\ UNCHANGED <<claimants, claimant_documents, job_postings, req, nreq, created_urls>>

-----------------------------------------------------------------------------
(* create_job_posting and run_scraper_and_store_jobs                       *)

\* create_job_posting returns (row, was_created): the scraper loop counts it,
\* a direct caller receives the pair.
CjReturn(p, row, was_created) ==
  IF req[p].kind = "scrape"
  THEN /\ local' = [local EXCEPT
                      ![p].new_jobs_added = IF was_created THEN @ + 1 ELSE @,
                      ![p].existing_jobs_skipped = IF was_created THEN @ ELSE @ + 1,
                      ![p].idx = @ + 1, ![p].job_data = None]
       /\ pc' = [pc EXCEPT ![p] = "scrape_loop"]
       /\ UNCHANGED <<result, err>>
  ELSE /\ local' = local
       /\ Return(p, <<row, was_created>>)

\* create_job_posting raises e: the scraper loop logs it and goes on.
CjRaise(p, e) ==
  IF req[p].kind = "scrape"
  THEN /\ local' = [local EXCEPT ![p].logged = Append(@, <<local[p].job_data[1].job_url, e>>),
                                 ![p].idx = @ + 1, ![p].job_data = None]
       /\ pc' = [pc EXCEPT ![p] = "scrape_loop"]
       /\ UNCHANGED <<result, err>>
  ELSE /\ local' = local
       /\ Raise(p, e)

\* The loop over the scraped records, and the summary after the last one.
ScrapeLoop(p) ==
  /\ pc[p] = "scrape_loop"
  /\ LET jobs == req[p].jobs
         i == local[p].idx
     IN  IF i > Len(jobs)
         THEN /\ Return(p, [jobs_found |-> Len(jobs),
                            new_jobs_added |-> local[p].new_jobs_added,
                            existing_jobs_skipped |-> local[p].existing_jobs_skipped])
              /\ local' = local
         ELSE /\ local' = [local EXCEPT ![p].job_data = Some(jobs[i])]
              /\ pc' = [pc EXCEPT ![p] = "cj_lookup"]
              /\ UNCHANGED <<result, err>>
  /\ UNCHANGED <<tables, now, req, needs_rollback, nreq, created_urls>>

\* fault: an existing posting is marked as found again before it is returned
CjLookupRefreshes(p) ==
  /\ pc[p] = "cj_lookup"
  /\ LET existing_job == get_job_posting_by_url(local[p].job_data[1].job_url)
     IN  IF needs_rollback[p]
         THEN CjRaise(p, "PendingRollbackError") /\ UNCHANGED <<job_postings, now>>
         ELSE IF existing_job # None
              THEN LET i == CHOOSE k \in DOMAIN job_postings :
                              job_postings[k].id = existing_job[1].id
                   IN  /\ job_postings' = [job_postings EXCEPT ![i].date_scraped = now]
                       /\ now' = now + 1
                       /\ CjReturn(p, job_postings'[i], FALSE)
              ELSE /\ pc' = [pc EXCEPT ![p] = "cj_commit"]
                   /\ UNCHANGED <<local, result, err, job_postings, now>>
  /\ UNCHANGED <<claimants, claimant_documents, matched_jobs, req, needs_rollback, nreq,
                 created_urls>>

\* The lookup by URL: an existing posting is returned as it is, with False.
CjLookup(p) ==
  /\ pc[p] = "cj_lookup"
  /\ LET existing_job == get_job_posting_by_url(local[p].job_data[1].job_url)
     IN  IF needs_rollback[p]
         THEN CjRaise(p, "PendingRollbackError")
         ELSE IF existing_job # None
              THEN CjReturn(p, existing_job[1], FALSE)
              ELSE /\ pc' = [pc EXCEPT ![p] = "cj_commit"]
                   /\ UNCHANGED <<local, result, err>>
  /\ UNCHANGED <<tables, now, req, needs_rollback, nreq, created_urls>>

\* SQLJobPosting(...) built from job_data; date_scraped and is_active take
\* the column defaults.
NewJobPosting(job_data) ==
  [id |-> Len(job_postings) + 1, title |-> job_data.title,
   company_name |-> job_data.company_name, location |-> job_data.location,
   description |-> job_data.description_snippet, job_url |-> job_data.job_url,
   source_website |-> job_data.source_website, date_scraped |-> now,
   date_posted |-> job_data.date_posted, is_active |-> TRUE]

\* db.add, db.commit, db.refresh: the INSERT, which the unique job_url may
\* refuse.
CjCommit(p) ==
  /\ pc[p] = "cj_commit"
  /\ LET row == NewJobPosting(local[p].job_data[1])
     IN  IF uq_job_url(row)
         THEN /\ job_postings' = Append(job_postings, row)
              /\ now' = now + 1
              /\ created_urls' = created_urls \cup {row.job_url}
              /\ CjReturn(p, row, TRUE)
              /\ UNCHANGED needs_rollback
         ELSE /\ needs_rollback' = [needs_rollback EXCEPT ![p] = TRUE]
              /\ CjRaise(p, "IntegrityError(UniqueViolation)")
              /\ UNCHANGED <<job_postings, now, created_urls>>
  /\ UNCHANGED <<claimants, claimant_documents, matched_jobs, req, nreq>>

-----------------------------------------------------------------------------
Next ==
  \E p \in Sessions :
    \/ StartRequest(p)
    \/ MatchLoad(p)
    \/ MatchFetch(p)
    \/ MatchLoop(p)
    \/ CmLookup(p)
    \/ CmCommit(p)
    \/ ScrapeLoop(p)
    \/ CjLookup(p)
    \/ CjCommit(p)

Spec == Init /\ [][Next]_vars

-----------------------------------------------------------------------------
(* Matching runs over a job pool that earlier scraper runs have stored.    *)

TxtCore == <<"C","o","r","e">>   \* 'Core'

\* a scraped card that shares two keywords with claimant 1 and none with
\* claimant 2
JobDataC ==
  [title |-> TxtAwsDev, company_name |-> "Core", location |-> Some(TxtEly),
   description_snippet |-> Some(TxtCore), job_url |-> "https://jobs.example/3",
   source_website |-> "Reed.co.uk", date_posted |-> None]

\* the row create_job_posting stored for job_data as row number id
StoredJob(job_data, id) ==
  [id |-> id, title |-> job_data.title,
   company_name |-> job_data.company_name, location |-> job_data.location,
   description |-> job_data.description_snippet, job_url |-> job_data.job_url,
   source_website |-> job_data.source_website, date_scraped |-> 0,
   date_posted |-> job_data.date_posted, is_active |-> TRUE]

\* job_postings of a store that holds two active postings
PoolJobs == <<StoredJob(JobDataA, 1), StoredJob(JobDataC, 2)>>

InitPool ==
  /\ claimants = SeedClaimants
  /\ claimant_documents = SeedDocuments
  /\ job_postings = PoolJobs
  /\ matched_jobs = <<>>
  /\ now = 1
  /\ pc = [p \in Sessions |-> "idle"]
  /\ req = [p \in Sessions |-> None]
  /\ local = [p \in Sessions |-> InitLocal]
  /\ needs_rollback = [p \in Sessions |-> FALSE]
  /\ result = [p \in Sessions |-> None]
  /\ err = [p \in Sessions |-> None]
  /\ nreq = 0
  /\ created_urls = {j.job_url : j \in Range(PoolJobs)}

\* matching runs for the claimants that have keywords
RunRequests == {[kind |-> "match", claimant_id |-> c] : c \in {1, 2}}

\* the number of matching runs started over the pool
MaxRuns == 2

StartRun(p) == nreq < MaxRuns /\ \E r \in RunRequests : Begin(p, r)

NextPool ==
  \E p \in Sessions :
    \/ StartRun(p)
    \/ MatchLoad(p)
    \/ MatchFetch(p)
    \/ MatchLoop(p)
    \/ CmLookup(p)
    \/ CmCommit(p)

SpecPool == InitPool /\ [][NextPool]_vars

-----------------------------------------------------------------------------
(* A matching run over a job store that holds more postings than the       *)
(* limit match_jobs_for_claimant passes to get_job_postings.               *)

\* the number of postings in the large store
BigPoolSize == 10001

\* the URL of the posting scraped as number i
BigUrl(i) == <<"https://jobs.example/", i>>

\* a posting that was withdrawn
Withdrawn(i) ==
  [id |-> i, title |-> TxtNA, company_name |-> "N/A", location |-> None,
   description |-> None, job_url |-> BigUrl(i), source_website |-> "Reed.co.uk",
   date_scraped |-> 0, date_posted |-> None, is_active |-> FALSE]

\* job_postings: the last two postings are active and share two keywords with
\* claimant 1, the postings before them were withdrawn
BigPool ==
  [i \in 1..BigPoolSize |->
     IF i >= BigPoolSize - 1
     THEN [StoredJob(JobDataA, i) EXCEPT !.job_url = BigUrl(i)]
     ELSE Withdrawn(i)]

InitBigPool ==
  /\ claimants = SeedClaimants
  /\ claimant_documents = SeedDocuments
  /\ job_postings = BigPool
  /\ matched_jobs = <<>>
  /\ now = 1
  /\ pc = [p \in Sessions |-> "idle"]
  /\ req = [p \in Sessions |-> None]
  /\ local = [p \in Sessions |-> InitLocal]
  /\ needs_rollback = [p \in Sessions |-> FALSE]
  /\ result = [p \in Sessions |-> None]
  /\ err = [p \in Sessions |-> None]
  /\ nreq = 0
  /\ created_urls = {BigUrl(i) : i \in 1..BigPoolSize}

\* matching runs, one after the other, served by session s1
StartBigRun(p) ==
  /\ p = "s1"
  /\ nreq < MaxRuns
  /\ \E c \in ClaimantIds : Begin(p, [kind |-> "match", claimant_id |-> c])

\* the position of the first job at or after the loop position that passes
\* the filters and the threshold, or the position after the last job
NextQualifying(p) ==
  LET jobs == local[p].all_jobs[1]
      later == {k \in local[p].idx..Len(jobs) :
                  Qualifies(local[p].kw, local[p].target, jobs[k])}
  IN  IF later = {} THEN Len(jobs) + 1
      ELSE CHOOSE k \in later : \A j \in later : k <= j

\* The iterations of the loop over jobs that do not qualify, which make no
\* database round trip, taken in one step.
MatchSkip(p) ==
  /\ pc[p] = "match_loop"
  /\ local[p].idx <= Len(local[p].all_jobs[1])
  /\ ~Qualifies(local[p].kw, local[p].target, local[p].all_jobs[1][local[p].idx])
  /\ local' = [local EXCEPT ![p].idx = NextQualifying(p)]
  /\ UNCHANGED <<tables, now, pc, req, needs_rollback, result, err, nreq, created_urls>>

\* The iteration for a job that qualifies, or the return after the last job.
MatchStep(p) ==
  /\ pc[p] = "match_loop"
  /\ IF local[p].idx > Len(local[p].all_jobs[1])
     THEN TRUE
     ELSE Qualifies(local[p].kw, local[p].target, local[p].all_jobs[1][local[p].idx])
  /\ MatchLoop(p)

NextBigPool ==
  \E p \in Sessions :
    \/ StartBigRun(p)
    \/ MatchLoad(p)
    \/ MatchFetch(p)
    \/ MatchSkip(p)
    \/ MatchStep(p)
    \/ CmLookup(p)
    \/ CmCommit(p)

SpecBigPool == InitBigPool /\ [][NextBigPool]_vars

-----------------------------------------------------------------------------
(* The keyword extractor called on its own: two calls, the second on a     *)
(* text derived from the first call's text.                                *)

MaxTextLen == 5

\* the characters of the drawn texts: an uppercase letter, lowercase
\* letters, a punctuation character and a whitespace character
Alphabet == {"T", "h", "e", "-", " "}

DrawnTexts == UNION {[1..n -> Alphabet] : n \in 0..MaxTextLen}

TxtAllStopWords ==
  <<"T","h","e"," ","a"," ","a","n"," ","i","s"," ","o","f"," ","i","t">>   \* 'The a an is of it'
TxtPythonDeveloperPunct ==
  <<"P","y","t","h","o","n","-","D","e","v","e","l","o","p","e","r","!">>   \* 'Python-Developer!'
TxtPythonDeveloper ==
  <<"p","y","t","h","o","n"," ","d","e","v","e","l","o","p","e","r">>   \* 'python developer'
TxtTabbed == <<"\t","T","h","e","e","\n","H","e","e","\r">>

ExampleTexts == {TxtAllStopWords, TxtPythonDeveloperPunct, TxtPythonDeveloper, TxtTabbed}

\* the arguments of a call: None or a text
ExtractInputs == {None} \cup {Some(t) : t \in DrawnTexts \cup ExampleTexts}

\* a character with its case folded and punctuation turned into a space
Folded(c) ==
  IF c \in Punctuation THEN " "
  ELSE IF c \in Range(UpperLetters)
       THEN LowerLetters[CHOOSE i \in DOMAIN UpperLetters : UpperLetters[i] = c]
       ELSE c

\* the texts the second call is made on: the same text, the text lowercased
\* with every punctuation character replaced by a space, and the examples
SecondInputs(text) ==
  {Some(t) : t \in ExampleTexts} \cup
  (IF text = None THEN {None}
   ELSE {text, Some([i \in DOMAIN text[1] |-> Folded(text[1][i])])})

InitExtract ==
  /\ claimants = SeedClaimants
  /\ claimant_documents = SeedDocuments
  /\ job_postings = SeedJobs
  /\ matched_jobs = <<>>
  /\ now = 1
  /\ \E t \in ExtractInputs : \E v \in SecondInputs(t) :
       req = [p \in Sessions |->
                [kind |-> "extract", text |-> IF p = "s1" THEN t ELSE v]]
  /\ pc = [p \in Sessions |-> "called"]
  /\ local = [p \in Sessions |-> InitLocal]
  /\ needs_rollback = [p \in Sessions |-> FALSE]
  /\ result = [p \in Sessions |-> None]
  /\ err = [p \in Sessions |-> None]
  /\ nreq = 0
  /\ created_urls = {j.job_url : j \in Range(SeedJobs)}

\* extract_keywords_from_text(text) is evaluated and returns
ExtractKeywords(p) ==
  /\ pc[p] = "called"
  /\ Return(p, extract_keywords_from_text(req[p].text))
  /\ UNCHANGED <<tables, now, req, local, needs_rollback, nreq, created_urls>>

NextExtract == \E p \in Sessions : ExtractKeywords(p)

SpecExtract == InitExtract /\ [][NextExtract]_vars

-----------------------------------------------------------------------------
(* Matching runs over the stored pool made one after the other: a run      *)
(* starts only when no other handler is at work.                           *)

StartRerun(p) ==
  /\ \A q \in Sessions : pc[q] \in {"idle", "done"}
  /\ StartRun(p)

NextRerun ==
  \E p \in Sessions :
    \/ StartRerun(p)
    \/ MatchLoad(p)
    \/ MatchFetch(p)
    \/ MatchLoop(p)
    \/ CmLookup(p)
    \/ CmCommit(p)

SpecRerun == InitPool /\ [][NextRerun]_vars

-----------------------------------------------------------------------------
(* Matching runs while the database may be unreachable: a query of the     *)
(* claimant load or of the job-pool fetch raises OperationalError.         *)

\* get_claimant(db, claimant_id) raises inside match_jobs_for_claimant
MatchLoadFails(p) ==
  /\ pc[p] = "match_load"
  /\ pc' = [pc EXCEPT ![p] = "match_load_raised"]
  /\ err' = [err EXCEPT ![p] = Some("OperationalError")]
  /\ UNCHANGED <<tables, now, req, local, needs_rollback, result, nreq, created_urls>>

\* get_job_postings(db, limit=10000) raises inside match_jobs_for_claimant
MatchFetchFails(p) ==
  /\ pc[p] = "match_fetch"
  /\ pc' = [pc EXCEPT ![p] = "match_fetch_raised"]
  /\ err' = [err EXCEPT ![p] = Some("OperationalError")]
  /\ UNCHANGED <<tables, now, req, local, needs_rollback, result, nreq, created_urls>>

\* fault: the exception is caught and the run returns an empty list
MatchUnwindSwallows(p) ==
  /\ pc[p] \in {"match_load_raised", "match_fetch_raised"}
  /\ pc' = [pc EXCEPT ![p] = "done"]
  /\ result' = [result EXCEPT ![p] = Some(<<>>)]
  /\ err' = [err EXCEPT ![p] = None]
  /\ UNCHANGED <<tables, now, req, local, needs_rollback, nreq, created_urls>>

\* No handler encloses the two calls: the exception leaves
\* match_jobs_for_claimant, and the endpoint turns it into an error response.
MatchUnwind(p) ==
  /\ pc[p] \in {"match_load_raised", "match_fetch_raised"}
  /\ Raise(p, err[p][1])
  /\ UNCHANGED <<tables, now, req, local, needs_rollback, nreq, created_urls>>

NextOutage ==
  \E p \in Sessions :
    \/ StartRun(p)
    \/ MatchLoad(p)
    \/ MatchLoadFails(p)
    \/ MatchFetch(p)
    \/ MatchFetchFails(p)
    \/ MatchUnwind(p)
    \/ MatchLoop(p)
    \/ CmLookup(p)
    \/ CmCommit(p)

SpecOutage == InitPool /\ [][NextOutage]_vars

-----------------------------------------------------------------------------
(* Matching runs over the stored pool where runs that overlap in time are  *)
(* for different claimants.                                                *)

StartApart(p) ==
  /\ nreq < MaxRuns
  /\ \E r \in RunRequests :
       /\ \A q \in Sessions \ {p} :
            IF pc[q] \in {"idle", "done"} THEN TRUE
            ELSE req[q].claimant_id # r.claimant_id
       /\ Begin(p, r)

NextApart ==
  \E p \in Sessions :
    \/ StartApart(p)
    \/ MatchLoad(p)
    \/ MatchFetch(p)
    \/ MatchLoop(p)
    \/ CmLookup(p)
    \/ CmCommit(p)

SpecApart == InitPool /\ [][NextApart]_vars

-----------------------------------------------------------------------------
(* Document parser.  An uploaded file is its declared mime type, the       *)
(* format its bytes really have ("pdf", "docx", "text", "corrupt" or       *)
(* "empty") and, for a well-formed file, the texts of its pages or         *)
(* paragraphs, None for a page without extractable text.                   *)

PdfMime == "application/pdf"
DocxMime == "application/vnd.openxmlformats-officedocument.wordprocessingml.document"

\* extracted_text after the loop over the pages or paragraphs
RECURSIVE Accumulate(_, _)
Accumulate(parts, suffix) ==
  IF parts = <<>> THEN <<>>
  ELSE OrEmpty(Head(parts)) \o suffix \o Accumulate(Tail(parts), suffix)

\* fault: a file of an unsupported type is read as plain text
extract_text_reads_any(file) ==
  IF file.format \in {"corrupt", "empty"} THEN <<>>
  ELSE Strip(Accumulate(file.parts, <<>>))

\* extract_text_from_document: PdfReader and docx.Document raise on bytes
\* that are not of their format, and every exception is answered with "".
extract_text_from_document(file) ==
  IF file.mime_type = PdfMime
  THEN IF file.format # "pdf" THEN <<>>
       ELSE Strip(Accumulate(file.parts, <<>>))
  ELSE IF file.mime_type = DocxMime
       THEN IF file.format # "docx" THEN <<>>
            ELSE Strip(Accumulate(file.parts, <<"\n">>))
       ELSE <<>>

PdfBobCv == [mime_type |-> PdfMime, format |-> "pdf", parts |-> <<Some(TxtBobCv), None>>]

UploadedFiles ==
  { PdfBobCv,
    [mime_type |-> DocxMime, format |-> "docx", parts |-> <<Some(TxtAwsDev), Some(TxtApi)>>],
    [mime_type |-> PdfMime, format |-> "pdf", parts |-> <<None>>],
    [mime_type |-> "text/plain", format |-> "text", parts |-> <<Some(TxtBobCv)>>],
    [mime_type |-> PdfMime, format |-> "corrupt", parts |-> <<>>],
    [mime_type |-> PdfMime, format |-> "empty", parts |-> <<>>],
    [mime_type |-> DocxMime, format |-> "empty", parts |-> <<>>],
    [mime_type |-> PdfMime, format |-> "docx", parts |-> <<Some(TxtAwsDev)>>] }

-----------------------------------------------------------------------------
(* Claimant Profile Store: update_claimant behind PUT /claimants/{id} and  *)
(* add_claimant_document behind POST /claimants/{id}/documents/.           *)

MaxClaimantRequests == 2

\* the fields of ClaimantUpdate
ClaimantUpdateFields ==
  {"name", "email", "phone_number", "notes", "target_location", "search_keywords"}

\* the columns of claimants declared nullable=False among them
NotNullColumns == {"name", "email"}

\* claimant_update.dict(exclude_unset=True) of the request bodies sent: a
\* function from the fields the body sets to their values, None for null
Patches ==
  { [f \in {} |-> None],
    "target_location" :> Some(TxtBath),
    "target_location" :> None,
    "search_keywords" :> Some(TxtSqlApi),
    ("name" :> Some("Zed")) @@ ("notes" :> Some(TxtApi)),
    "email" :> Some("bob@example.com"),
    "name" :> None }

NewDocuments ==
  {[document_type |-> TxtCV, file |-> PdfBobCv]}

ClaimantRequests ==
  {[kind |-> "update_claimant", claimant_id |-> c, patch |-> u] :
     c \in {1, 2, 4}, u \in Patches}
  \cup
  {[kind |-> "add_document", claimant_id |-> c, document |-> d] :
     c \in {1, 4}, d \in NewDocuments}

StartClaimantRequest(p) ==
  /\ nreq < MaxClaimantRequests
  /\ \E r \in ClaimantRequests : Begin(p, r)

\* the value setattr(db_claimant, field, value) leaves in the attribute
Assigned(field, value) ==
  IF field \in NotNullColumns /\ value # None THEN value[1] ELSE value

\* the attributes whose assigned value differs from the loaded one: the
\* columns the flush writes
Dirty(loaded, patch) ==
  {f \in DOMAIN patch :
     IF f \in NotNullColumns
     THEN IF patch[f] = None THEN TRUE ELSE patch[f][1] # loaded[f]
     ELSE patch[f] # loaded[f]}

\* nullable=False of name and email
nn_claimant(patch, dirty) == \A f \in dirty \cap NotNullColumns : patch[f] # None

\* unique=True of email
uq_claimant_email(id, patch, dirty) ==
  "email" \in dirty =>
    \A c \in Range(claimants) : c.id # id => c.email # Assigned("email", patch["email"])

\* update_claimant up to its commit: the claimant is loaded, the fields of
\* the patch are assigned; None is returned for an absent claimant and the
\* loaded claimant for a patch that sets no field.
UcLoad(p) ==
  /\ pc[p] = "uc_load"
  /\ LET claimant == get_claimant(req[p].claimant_id)
     IN  IF claimant = None
         THEN Return(p, None) /\ local' = local
         ELSE IF DOMAIN req[p].patch = {}
              THEN Return(p, claimant[1]) /\ local' = local
              ELSE /\ local' = [local EXCEPT ![p].existing = claimant]
                   /\ pc' = [pc EXCEPT ![p] = "uc_commit"]
                   /\ UNCHANGED <<result, err>>
  /\ UNCHANGED <<tables, now, req, needs_rollback, nreq, created_urls>>

\* fault: the UPDATE writes every column of the loaded claimant
UpdatedClaimantWritesAll(stored, loaded, patch, ts) ==
  [f \in DOMAIN stored |->
     IF f \in DOMAIN patch THEN Assigned(f, patch[f])
     ELSE IF f = "updated_at" THEN ts ELSE loaded[f]]

\* The row the UPDATE leaves in the table: the dirty columns are written and
\* updated_at takes its onupdate value.
UpdatedClaimant(stored, loaded, patch, ts) ==
  [f \in DOMAIN stored |->
     IF f \in Dirty(loaded, patch) THEN Assigned(f, patch[f])
     ELSE IF f = "updated_at" THEN ts ELSE stored[f]]

\* db.commit() and db.refresh(db_claimant) of update_claimant
UcCommit(p) ==
  /\ pc[p] = "uc_commit"
  /\ LET loaded == local[p].existing[1]
         patch == req[p].patch
         dirty == Dirty(loaded, patch)
         i == CHOOSE k \in DOMAIN claimants : claimants[k].id = loaded.id
     IN  IF dirty = {}
         THEN /\ Return(p, claimants[i])
              /\ UNCHANGED <<claimants, now, needs_rollback>>
         ELSE IF nn_claimant(patch, dirty) /\ uq_claimant_email(loaded.id, patch, dirty)
              THEN /\ claimants' = [claimants EXCEPT
                                      ![i] = UpdatedClaimant(@, loaded, patch, now)]
                   /\ now' = now + 1
                   /\ Return(p, claimants'[i])
                   /\ UNCHANGED needs_rollback
              ELSE /\ Raise(p, "IntegrityError")
                   /\ needs_rollback' = [needs_rollback EXCEPT ![p] = TRUE]
                   /\ UNCHANGED <<claimants, now>>
  /\ local' = [local EXCEPT ![p].existing = None]
  /\ UNCHANGED <<claimant_documents, job_postings, matched_jobs, req, nreq, created_urls>>

\* fault: the endpoint does not look the claimant up
UdCheckSkipped(p) ==
  /\ pc[p] = "ud_check"
  /\ pc' = [pc EXCEPT ![p] = "ud_commit"]
  /\ UNCHANGED <<tables, now, req, local, needs_rollback, result, err, nreq, created_urls>>

\* upload_claimant_document, step 1: 404 when the claimant does not exist
UdCheck(p) ==
  /\ pc[p] = "ud_check"
  /\ IF get_claimant(req[p].claimant_id) = None
     THEN Raise(p, "404 Claimant not found for document upload")
     ELSE pc' = [pc EXCEPT ![p] = "ud_commit"] /\ UNCHANGED <<result, err>>
  /\ UNCHANGED <<tables, now, req, local, needs_rollback, nreq, created_urls>>

\* ForeignKey("claimants.id") of claimant_documents.claimant_id
fk_claimant_document(row) == \E c \in Range(claimants) : c.id = row.claimant_id

\* upload_claimant_document after the check: the text is extracted, then
\* add_claimant_document makes the INSERT, its commit and refresh; the
\* endpoint answers 500 when the commit fails
UdCommit(p) ==
  /\ pc[p] = "ud_commit"
  /\ LET row == [id |-> Len(claimant_documents) + 1,
                 claimant_id |-> req[p].claimant_id,
                 document_type |-> req[p].document.document_type,
                 raw_text_content |->
                   Some(extract_text_from_document(req[p].document.file))]
     IN  IF fk_claimant_document(row)
         THEN /\ claimant_documents' = Append(claimant_documents, row)
              /\ Return(p, row)
              /\ UNCHANGED needs_rollback
         ELSE /\ Raise(p, "500 Could not save document information to the database.")
              /\ needs_rollback' = [needs_rollback EXCEPT ![p] = TRUE]
              /\ UNCHANGED claimant_documents
  /\ UNCHANGED <<claimants, job_postings, matched_jobs, now, req, local, nreq, created_urls>>

NextClaimants ==
  \E p \in Sessions :
    \/ StartClaimantRequest(p)
    \/ UcLoad(p)
    \/ UcCommit(p)
    \/ UdCheck(p)
    \/ UdCommit(p)

SpecClaimants == Init /\ [][NextClaimants]_vars

-----------------------------------------------------------------------------
(* Document uploads alone: files of every kind, tagged as CV or cover      *)
(* letter, for claimants 1 and 4.                                          *)

StartUpload(p) ==
  /\ nreq < MaxClaimantRequests
  /\ \E c \in {1, 4}, f \in UploadedFiles, t \in {TxtCV, TxtCoverLetter} :
       Begin(p, [kind |-> "add_document", claimant_id |-> c,
                 document |-> [document_type |-> t, file |-> f]])

NextUpload ==
  \E p \in Sessions :
    \/ StartUpload(p)
    \/ UdCheck(p)
    \/ UdCommit(p)

SpecUpload == Init /\ [][NextUpload]_vars

-----------------------------------------------------------------------------
(* The paginated list operations of the Job Store and the Match Store,     *)
(* called while matching runs fill the Match Store.                        *)

StartList(p) ==
  /\ nreq < MaxRuns
  /\ \E skip \in {0, 1}, limit \in {1, 2} :
       \/ Begin(p, [kind |-> "list_jobs", skip |-> skip, limit |-> limit])
       \/ \E c \in {1, 2} :
            Begin(p, [kind |-> "list_matches", claimant_id |-> c,
                      skip |-> skip, limit |-> limit])

\* get_job_postings(db, skip, limit) returns
ListJobs(p) ==
  /\ pc[p] = "list_jobs"
  /\ \E rows \in get_job_postings(req[p].skip, req[p].limit) : Return(p, rows)
  /\ UNCHANGED <<tables, now, req, local, needs_rollback, nreq, created_urls>>

\* get_matched_jobs_for_claimant(db, claimant_id, skip, limit) returns
ListMatches(p) ==
  /\ pc[p] = "list_matches"
  /\ \E rows \in get_matched_jobs_for_claimant(req[p].claimant_id,
                                               req[p].skip, req[p].limit) :
       Return(p, rows)
  /\ UNCHANGED <<tables, now, req, local, needs_rollback, nreq, created_urls>>

NextList ==
  \E p \in Sessions :
    \/ StartRun(p)
    \/ MatchLoad(p)
    \/ MatchFetch(p)
    \/ MatchLoop(p)
    \/ CmLookup(p)
    \/ CmCommit(p)
    \/ StartList(p)
    \/ ListJobs(p)
    \/ ListMatches(p)

SpecList == InitPool /\ [][NextList]_vars

-----------------------------------------------------------------------------
(* Matching runs over the stored pool while the profiles change: documents *)
(* are uploaded and search_keywords are updated.                           *)

TxtAwsDevList == <<" ","A","W","S"," ",",","d","e","v",",",",">>   \* ' AWS ,dev,,'

\* the values PUT /claimants/{id} sets search_keywords to
KeywordTexts == {None, Some(<<>>), Some(TxtSqlApi), Some(TxtAwsDevList)}

\* uploads of PDF files, readable or corrupted, for claimant 1
StartProfileUpload(p) ==
  /\ nreq < MaxClaimantRequests
  /\ \E f \in {x \in UploadedFiles : x.mime_type = PdfMime /\ x.format \in {"pdf", "corrupt"}},
        t \in {TxtCV, TxtCoverLetter} :
       Begin(p, [kind |-> "add_document", claimant_id |-> 1,
                 document |-> [document_type |-> t, file |-> f]])

StartKeywordUpdate(p) ==
  /\ nreq < MaxClaimantRequests
  /\ \E c \in {1, 3}, kw \in KeywordTexts :
       Begin(p, [kind |-> "update_claimant", claimant_id |-> c,
                 patch |-> "search_keywords" :> kw])

StartProfileRun(p) ==
  /\ nreq < MaxRuns
  /\ \E c \in {1, 2, 3} : Begin(p, [kind |-> "match", claimant_id |-> c])

NextProfile ==
  \E p \in Sessions :
    \/ StartProfileUpload(p)
    \/ UdCheck(p)
    \/ UdCommit(p)
    \/ StartKeywordUpdate(p)
    \/ UcLoad(p)
    \/ UcCommit(p)
    \/ StartProfileRun(p)
    \/ MatchLoad(p)
    \/ MatchFetch(p)
    \/ MatchLoop(p)
    \/ CmLookup(p)
    \/ CmCommit(p)

SpecProfile == InitPool /\ [][NextProfile]_vars

-----------------------------------------------------------------------------
(* One matching run over a pool with a posting that shares six keywords    *)
(* with claimant 3, three with claimant 1 and two with claimant 2.         *)

MaxRichRuns == 1

TxtRichKeywords == <<"s","q","l",",","a","p","i",",","a","w","s",",","d","e","v",",","c","o","r","e",",","t","e","a","m">>   \* 'sql,api,aws,dev,core,team'
TxtRich == <<"a","w","s"," ","d","e","v"," ","c","o","r","e"," ","t","e","a","m">>   \* 'aws dev core team'

JobDataRich ==
  [title |-> TxtSqlApi, company_name |-> "Rich", location |-> Some(TxtElyUk),
   description_snippet |-> Some(TxtRich), job_url |-> "https://jobs.example/4",
   source_website |-> "Reed.co.uk", date_posted |-> None]

InitRich ==
  /\ claimants = [SeedClaimants EXCEPT ![3].search_keywords = Some(TxtRichKeywords),
                                       ![3].target_location = Some(TxtEly)]
  /\ claimant_documents = SeedDocuments
  /\ job_postings = <<StoredJob(JobDataRich, 1), StoredJob(JobDataC, 2)>>
  /\ matched_jobs = <<>>
  /\ now = 1
  /\ pc = [p \in Sessions |-> "idle"]
  /\ req = [p \in Sessions |-> None]
  /\ local = [p \in Sessions |-> InitLocal]
  /\ needs_rollback = [p \in Sessions |-> FALSE]
  /\ result = [p \in Sessions |-> None]
  /\ err = [p \in Sessions |-> None]
  /\ nreq = 0
  /\ created_urls = {JobDataRich.job_url, JobDataC.job_url}

StartRichRun(p) ==
  /\ nreq < MaxRichRuns
  /\ \E c \in {1, 2, 3} : Begin(p, [kind |-> "match", claimant_id |-> c])

NextRich ==
  \E p \in Sessions :
    \/ StartRichRun(p)
    \/ MatchLoad(p)
    \/ MatchFetch(p)
    \/ MatchLoop(p)
    \/ CmLookup(p)
    \/ CmCommit(p)

SpecRich == InitRich /\ [][NextRich]_vars

-----------------------------------------------------------------------------
(* Matching runs before and after a change of the declared keywords.       *)

StartFrameRun(p) ==
  \E c \in {1, 2} : Begin(p, [kind |-> "match", claimant_id |-> c])

\* PUT /claimants/1 setting search_keywords
StartFrameUpdate(p) ==
  /\ nreq < MaxClaimantRequests
  /\ \E kw \in KeywordTexts :
       Begin(p, [kind |-> "update_claimant", claimant_id |-> 1,
                 patch |-> "search_keywords" :> kw])

NextFrame ==
  \E p \in Sessions :
    \/ StartFrameRun(p)
    \/ StartFrameUpdate(p)
    \/ UcLoad(p)
    \/ UcCommit(p)
    \/ MatchLoad(p)
    \/ MatchFetch(p)
    \/ MatchLoop(p)
    \/ CmLookup(p)
    \/ CmCommit(p)

SpecFrame == InitPool /\ [][NextFrame]_vars

-----------------------------------------------------------------------------
(* The extractor called on the entries of DEFAULT_STOP_WORDS.              *)

InitStopWords ==
  /\ claimants = SeedClaimants
  /\ claimant_documents = SeedDocuments
  /\ job_postings = SeedJobs
  /\ matched_jobs = <<>>
  /\ now = 1
  /\ \E w \in DEFAULT_STOP_WORDS :
       req = [p \in Sessions |-> [kind |-> "extract", text |-> Some(w)]]
  /\ pc = [p \in Sessions |-> "called"]
  /\ local = [p \in Sessions |-> InitLocal]
  /\ needs_rollback = [p \in Sessions |-> FALSE]
  /\ result = [p \in Sessions |-> None]
  /\ err = [p \in Sessions |-> None]
  /\ nreq = 0
  /\ created_urls = {j.job_url : j \in Range(SeedJobs)}

SpecStopWords == InitStopWords /\ [][NextExtract]_vars

-----------------------------------------------------------------------------
(* Properties.                                                             *)

\* the positions of the match records of the pair
MatchesOf(claimant_id, job_posting_id) ==
  {i \in DOMAIN matched_jobs :
     /\ matched_jobs[i].claimant_id = claimant_id
     /\ matched_jobs[i].job_posting_id = job_posting_id}

\* the step is one of session p
StepOf(p) == pc'[p] # pc[p] \/ local'[p] # local[p]

\* session p serves a matching run
InMatchRun(p) == pc[p] # "idle" /\ req[p].kind = "match"

\* the record create_matched_job hands back to the caller in this step
CmReturned(p) ==
  IF req[p].kind = "match"
  THEN local'[p].created[Len(local'[p].created)]
  ELSE result'[p][1]

\* the job posting with the given id
JobRow(id) == CHOOSE j \in Range(job_postings) : j.id = id

\* |final_keywords \cap job_keywords| for the run of session p, the job
\* keywords taken from title + " " + description
Overlap(p, job) ==
  Cardinality(local[p].kw
              \cap extract_keywords_from_text(
                     Some(job.title \o <<" ">>
                          \o (IF job.description = None THEN <<>> ELSE job.description[1]))))

\* the job the loop of session p stands at
CurrentJob(p) == local[p].all_jobs[1][local[p].idx]

\* C1: in every reachable state the Match Store holds at most one MatchedJob
\* record for each (claimant_id, job_posting_id) pair.
C1_OneMatchPerPair ==
  \A i, j \in DOMAIN matched_jobs :
    (/\ matched_jobs[i].claimant_id = matched_jobs[j].claimant_id
     /\ matched_jobs[i].job_posting_id = matched_jobs[j].job_posting_id) => i = j

\* a direct upsert and a matching run have both written the pair (1, 2), and
\* the store holds one record for it
C1_Witness ==
  \E p, q \in Sessions :
    /\ p # q /\ pc[p] = "done" /\ pc[q] = "done"
    /\ req[p].kind = "upsert" /\ err[p] = None
    /\ req[q].kind = "match" /\ req[q].claimant_id = 1
    /\ result[q] # None /\ Len(result[q][1]) = 1
    /\ result[q][1][1].job_posting_id = 2
    /\ Cardinality(MatchesOf(1, 2)) = 1

\* The commit step of an upsert by session p.  When the pair's record is the
\* one the upsert's lookup found, the step overwrites score, status and notes
\* with the supplied values, sets the match timestamp to the clock value the
\* upsert read, which is not earlier than the previous one, keeps the row id
\* and the number of records, changes no other record and returns the record.
\* When the pair has no record (and the claimant and the job exist), the step
\* appends exactly one record carrying the supplied values and returns it.
C2_UpsertStep(p) ==
  LET match == local[p].match[1]
      hits == MatchesOf(match.claimant_id, match.job_posting_id)
      n == Len(matched_jobs)
  IN  /\ \A i \in hits :
           local[p].existing = Some(matched_jobs[i]) =>
             /\ Len(matched_jobs') = n
             /\ \A k \in DOMAIN matched_jobs : k # i => matched_jobs'[k] = matched_jobs[k]
             /\ matched_jobs'[i].id = matched_jobs[i].id
             /\ matched_jobs'[i].claimant_id = match.claimant_id
             /\ matched_jobs'[i].job_posting_id = match.job_posting_id
             /\ matched_jobs'[i].match_score = match.match_score
             /\ matched_jobs'[i].status = match.status
             /\ matched_jobs'[i].notes_for_advisor = match.notes_for_advisor
             /\ matched_jobs'[i].match_date = local[p].ts
             /\ matched_jobs'[i].match_date >= matched_jobs[i].match_date
             /\ CmReturned(p) = matched_jobs'[i]
      /\ (/\ hits = {}
          /\ \E c \in Range(claimants) : c.id = match.claimant_id
          /\ \E j \in Range(job_postings) : j.id = match.job_posting_id) =>
             /\ Len(matched_jobs') = n + 1
             /\ SubSeq(matched_jobs', 1, n) = matched_jobs
             /\ matched_jobs'[n + 1].claimant_id = match.claimant_id
             /\ matched_jobs'[n + 1].job_posting_id = match.job_posting_id
             /\ matched_jobs'[n + 1].match_score = match.match_score
             /\ matched_jobs'[n + 1].status = match.status
             /\ matched_jobs'[n + 1].notes_for_advisor = match.notes_for_advisor
             /\ \A k \in DOMAIN matched_jobs : matched_jobs[k].id # matched_jobs'[n + 1].id
             /\ CmReturned(p) = matched_jobs'[n + 1]

\* C2: an upsert for a pair that has a record overwrites its score, status
\* and notes, refreshes its match timestamp (never earlier than the previous
\* one), returns the record with the same row id and leaves the number of
\* records unchanged; an upsert for a pair without a record inserts exactly
\* one record carrying the supplied values.
C2_Upsert ==
  [][\A p \in Sessions :
       (pc[p] = "cm_commit" /\ pc'[p] # "cm_commit") => C2_UpsertStep(p)]_vars

\* a matching run inserted the record of a pair and a later direct upsert
\* overwrote it with another score
C2_Witness ==
  \E p, q \in Sessions :
    /\ p # q /\ pc[p] = "done" /\ pc[q] = "done"
    /\ req[p].kind = "upsert" /\ err[p] = None /\ result[p] # None
    /\ req[q].kind = "match" /\ result[q] # None /\ Len(result[q][1]) = 1
    /\ result[q][1][1].id = result[p][1].id
    /\ result[q][1][1].match_score # result[p][1].match_score
    /\ result[q][1][1].match_date < result[p][1].match_date
    /\ matched_jobs = <<result[p][1]>>

\* session q is inside create_matched_job for the pair
InUpsert(q, claimant_id, job_posting_id) ==
  /\ pc[q] \in {"cm_lookup", "cm_commit"}
  /\ local[q].match[1].claimant_id = claimant_id
  /\ local[q].match[1].job_posting_id = job_posting_id

\* C3: when two upserts for the same pair run concurrently, their lookup and
\* commit steps interleaved in any order, the store never ends up with two
\* records for the pair: a commit whose lookup predates the other upsert's
\* insert adds nothing and fails.
C3_ConcurrentUpsert ==
  [][\A p \in Sessions :
       (pc[p] = "cm_commit" /\ pc'[p] # "cm_commit") =>
         LET c == local[p].match[1].claimant_id
             j == local[p].match[1].job_posting_id
             stale == local[p].existing = None /\ MatchesOf(c, j) # {}
         IN  ((\E q \in Sessions \ {p} : InUpsert(q, c, j)) \/ stale) =>
               /\ Cardinality({i \in DOMAIN matched_jobs' :
                                 /\ matched_jobs'[i].claimant_id = c
                                 /\ matched_jobs'[i].job_posting_id = j}) <= 1
               /\ stale => (matched_jobs' = matched_jobs /\ needs_rollback'[p])]_vars

\* two upserts of the pair (1, 2) both found no record; one inserted, the
\* other was refused by the unique constraint
C3_Witness ==
  \E p \in Sessions :
    /\ pc[p] = "done" /\ req[p].kind = "upsert"
    /\ err[p] = Some("IntegrityError(UniqueViolation)")
    /\ Cardinality(MatchesOf(1, 2)) = 1

\* C4: create_job_posting called with a job_url that is already stored inserts
\* nothing and leaves every field of every stored posting unchanged, whatever
\* the payload; on a session whose transaction is usable it returns the
\* existing record and was_created = false (the scraper counts a skip).
C4_ExistingUrlKept ==
  [][\A p \in Sessions :
       (pc[p] = "cj_lookup" /\ pc'[p] # "cj_lookup") =>
         \A i \in DOMAIN job_postings :
           job_postings[i].job_url = local[p].job_data[1].job_url =>
             /\ job_postings' = job_postings
             /\ ~needs_rollback[p] =>
                  IF req[p].kind = "scrape"
                  THEN /\ pc'[p] = "scrape_loop"
                       /\ local'[p].existing_jobs_skipped
                            = local[p].existing_jobs_skipped + 1
                       /\ local'[p].new_jobs_added = local[p].new_jobs_added
                  ELSE /\ result'[p] = Some(<<job_postings[i], FALSE>>)
                       /\ err'[p] = None]_vars

\* a direct call with a stored URL and another title returned the stored
\* posting and False
C4_Witness ==
  \E p \in Sessions :
    /\ pc[p] = "done" /\ req[p].kind = "create_job" /\ result[p] # None
    /\ result[p][1][2] = FALSE
    /\ result[p][1][1].title # req[p].job_data.title
    /\ result[p][1][1] \in Range(job_postings)

\* C5: no two job postings share a job_url, and the number of postings equals
\* the number of distinct URLs whose creation succeeded.
C5_UniqueUrls ==
  /\ \A i, j \in DOMAIN job_postings :
       job_postings[i].job_url = job_postings[j].job_url => i = j
  /\ Len(job_postings) = Cardinality(created_urls)
  /\ created_urls = {job_postings[i].job_url : i \in DOMAIN job_postings}

\* a scraper run skipped a record whose URL was stored, and the store holds
\* three postings
C5_Witness ==
  /\ Len(job_postings) = 3
  /\ \E p \in Sessions :
       /\ pc[p] = "done" /\ req[p].kind = "scrape" /\ result[p] # None
       /\ result[p][1].existing_jobs_skipped >= 1

\* C6: for every active job that passes the location filter the run calls the
\* upsert if and only if the overlap is at least 2, with score = overlap and
\* status "new"; the record a successful write leaves for the pair (the record
\* being the one the lookup found, or a new one) carries that score and status.
C6_Threshold ==
  [][\A p \in Sessions :
       /\ (/\ pc[p] = "match_loop" /\ StepOf(p)
           /\ local[p].idx <= Len(local[p].all_jobs[1])
           /\ CurrentJob(p).is_active
           /\ LocationPasses(local[p].target, CurrentJob(p))) =>
            /\ (pc'[p] = "cm_lookup") <=> (Overlap(p, CurrentJob(p)) >= 2)
            /\ (pc'[p] = "cm_lookup") =>
                 /\ local'[p].match[1].claimant_id = req[p].claimant_id
                 /\ local'[p].match[1].job_posting_id = CurrentJob(p).id
                 /\ local'[p].match[1].match_score = Overlap(p, CurrentJob(p))
                 /\ local'[p].match[1].status = "new"
       /\ (/\ pc[p] = "cm_commit" /\ pc'[p] # "cm_commit" /\ req[p].kind = "match"
           /\ matched_jobs' # matched_jobs
           /\ \/ local[p].existing = None
              \/ local[p].existing[1] \in Range(matched_jobs)) =>
            \E i \in DOMAIN matched_jobs' :
              /\ matched_jobs'[i].claimant_id = req[p].claimant_id
              /\ matched_jobs'[i].job_posting_id = CurrentJob(p).id
              /\ matched_jobs'[i].match_score = Overlap(p, CurrentJob(p))
              /\ matched_jobs'[i].match_score >= 2
              /\ matched_jobs'[i].status = "new"
              /\ CmReturned(p) = matched_jobs'[i]]_vars

\* a run for claimant 1 over three postings returned one record, of score 2
\* and status "new", and passed over an active posting of overlap 1
C6_Witness ==
  \E p \in Sessions :
    /\ pc[p] = "done" /\ req[p].kind = "match" /\ req[p].claimant_id = 1
    /\ result[p] # None /\ Len(result[p][1]) = 1
    /\ result[p][1][1].match_score = 2 /\ result[p][1][1].status = "new"
    /\ result[p][1][1] \in Range(matched_jobs)
    /\ \E k \in DOMAIN local[p].all_jobs[1] :
         /\ local[p].all_jobs[1][k].is_active
         /\ Overlap(p, local[p].all_jobs[1][k]) = 1
         /\ MatchesOf(1, local[p].all_jobs[1][k].id) = {}

\* C7: a matching run never creates, updates or returns a match record for a
\* job posting whose is_active flag is false.
C7_InactiveNeverMatched ==
  [][\A p \in Sessions :
       (InMatchRun(p) /\ StepOf(p)) =>
         /\ \A i \in DOMAIN matched_jobs' :
              (i \notin DOMAIN matched_jobs \/ matched_jobs'[i] # matched_jobs[i]) =>
                JobRow(matched_jobs'[i].job_posting_id).is_active
         /\ \A i \in DOMAIN local'[p].created :
              JobRow(local'[p].created[i].job_posting_id).is_active
         /\ (pc'[p] = "done" /\ result'[p] # None) =>
              \A i \in DOMAIN result'[p][1] :
                JobRow(result'[p][1][i].job_posting_id).is_active]_vars

\* a run returned a match while the pool held a withdrawn posting sharing at
\* least two keywords with the claimant, for which no record exists
C7_Witness ==
  \E p \in Sessions :
    /\ pc[p] = "done" /\ req[p].kind = "match"
    /\ result[p] # None /\ Len(result[p][1]) >= 1
    /\ \E k \in DOMAIN local[p].all_jobs[1] :
         /\ ~local[p].all_jobs[1][k].is_active
         /\ Overlap(p, local[p].all_jobs[1][k]) >= 2
         /\ LocationPasses(local[p].target, local[p].all_jobs[1][k])
         /\ MatchesOf(req[p].claimant_id, local[p].all_jobs[1][k].id) = {}

\* the job's location contains the target location, case-insensitively
Near(target, job) ==
  /\ job.location # None
  /\ \E i \in 0..(Len(job.location[1]) - Len(target)) :
       \A k \in 1..Len(target) :
         LowerChar(job.location[1][i + k]) = LowerChar(target[k])

\* C8: with a non-empty target_location a run creates, updates or returns a
\* record only for a job whose location contains the target location,
\* case-insensitively (never for a job without location); with a null or
\* empty target_location no job is skipped on location grounds.
C8_LocationFilter ==
  [][\A p \in Sessions :
       (pc[p] \in {"match_loop", "cm_lookup", "cm_commit"} /\ req[p].kind = "match"
        /\ StepOf(p)) =>
         IF local[p].target # None /\ local[p].target[1] # <<>>
         THEN /\ \A i \in DOMAIN matched_jobs' :
                   (i \notin DOMAIN matched_jobs \/ matched_jobs'[i] # matched_jobs[i]) =>
                     Near(local[p].target[1], JobRow(matched_jobs'[i].job_posting_id))
              /\ \A i \in DOMAIN local'[p].created :
                   Near(local[p].target[1], JobRow(local'[p].created[i].job_posting_id))
              /\ (pc'[p] = "done" /\ result'[p] # None) =>
                   \A i \in DOMAIN result'[p][1] :
                     Near(local[p].target[1], JobRow(result'[p][1][i].job_posting_id))
         ELSE (pc[p] = "match_loop" /\ local[p].idx <= Len(local[p].all_jobs[1])) =>
                ((pc'[p] = "cm_lookup") <=>
                   (CurrentJob(p).is_active /\ Overlap(p, CurrentJob(p)) >= 2))]_vars

\* a run for claimant 2 (target "Ely") returned the posting located in
\* "ELY, UK" and passed over an active posting in "Bath" with overlap 2
C8_Witness ==
  \E p \in Sessions :
    /\ pc[p] = "done" /\ req[p].kind = "match" /\ req[p].claimant_id = 2
    /\ result[p] # None /\ Len(result[p][1]) = 1
    /\ JobRow(result[p][1][1].job_posting_id).location = Some(TxtElyUk)
    /\ \E k \in DOMAIN local[p].all_jobs[1] :
         /\ local[p].all_jobs[1][k].is_active
         /\ Overlap(p, local[p].all_jobs[1][k]) >= 2
         /\ local[p].all_jobs[1][k].location = Some(TxtBath)
         /\ MatchesOf(2, local[p].all_jobs[1][k].id) = {}

\* C9: for an existing claimant with no CV-derived and no explicit keyword the
\* run returns the empty list without an error, writes to no table and does
\* not load the job pool.
C9_NoKeywords ==
  [][\A p \in Sessions :
       (pc[p] = "match_load" /\ StepOf(p)) =>
         \A c \in Range(claimants) :
           (/\ c.id = req[p].claimant_id
            /\ cv_keywords(c.id) = {}
            /\ explicit_keyword_set(c.search_keywords) = {}) =>
             /\ pc'[p] = "done"
             /\ result'[p] = Some(<<>>)
             /\ err'[p] = None
             /\ local'[p].all_jobs = None
             /\ tables' = tables]_vars

\* the run for claimant 3 returned [] with the job pool never loaded, while
\* the Job Store held three postings
C9_Witness ==
  \E p \in Sessions :
    /\ pc[p] = "done" /\ req[p].kind = "match" /\ req[p].claimant_id = 3
    /\ result[p] = Some(<<>>) /\ err[p] = None
    /\ local[p].all_jobs = None
    /\ Len(job_postings) = 3

\* C10: for a claimant id that does not exist the run returns the empty list
\* as a normal result (no error) and leaves every table unchanged.
C10_AbsentClaimant ==
  [][\A p \in Sessions :
       (/\ pc[p] = "match_load" /\ StepOf(p)
        /\ \A c \in Range(claimants) : c.id # req[p].claimant_id) =>
         /\ pc'[p] = "done"
         /\ result'[p] = Some(<<>>)
         /\ err'[p] = None
         /\ tables' = tables]_vars

\* the run for the unregistered id 4 returned [] while the stores held
\* postings and a match record
C10_Witness ==
  \E p \in Sessions :
    /\ pc[p] = "done" /\ req[p].kind = "match"
    /\ \A c \in Range(claimants) : c.id # req[p].claimant_id
    /\ result[p] = Some(<<>>) /\ err[p] = None
    /\ Len(job_postings) >= 2 /\ Len(matched_jobs) >= 1

\* session p has finished a matching run that reached the job pool
RunDone(p) ==
  /\ pc[p] = "done" /\ req[p].kind = "match"
  /\ result[p] # None /\ local[p].all_jobs # None

\* the jobs of the pool of run p that pass the activity filter, the location
\* filter and the threshold
QualifyingJobs(p) ==
  {job \in Range(local[p].all_jobs[1]) : Qualifies(local[p].kw, local[p].target, job)}

\* the job ids of the records run p returned
ReturnedJobIds(p) == {result[p][1][i].job_posting_id : i \in DOMAIN result[p][1]}

\* C11: when the write for one qualifying job fails during a matching run, the
\* failure is caught (the run returns a list), the job is omitted from the
\* list, and every later qualifying job is still persisted and returned: a
\* qualifying job is missing from the list only for a failure of its own
\* write, never because the session still carries an earlier failure.
C11_FailureTolerated ==
  \A p \in Sessions :
    RunDone(p) =>
      /\ err[p] = None
      /\ \A e \in Range(local[p].logged) : e[1] \notin ReturnedJobIds(p)
      /\ \A job \in QualifyingJobs(p) :
           \/ /\ job.id \in ReturnedJobIds(p)
              /\ MatchesOf(req[p].claimant_id, job.id) # {}
           \/ \E e \in Range(local[p].logged) :
                e[1] = job.id /\ e[2] # "PendingRollbackError"

\* C12: after a matching run in which no upsert failed, every active posting
\* of the Job Store that passes the location filter and shares at least two
\* keywords with the claimant has a match record for the claimant and is in
\* the returned list, however many postings the store holds.
C12_WholePool ==
  \A p \in Sessions :
    (RunDone(p) /\ local[p].logged = <<>>) =>
      \A i \in DOMAIN job_postings :
        Qualifies(local[p].kw, local[p].target, job_postings[i]) =>
          /\ job_postings[i].id \in ReturnedJobIds(p)
          /\ MatchesOf(req[p].claimant_id, job_postings[i].id) # {}

\* the position of the job with the given id in the list run p iterates
PositionOf(p, id) ==
  CHOOSE k \in DOMAIN local[p].all_jobs[1] : local[p].all_jobs[1][k].id = id

\* the ids of the jobs whose upsert failed in run p
FailedJobIds(p) == {e[1] : e \in Range(local[p].logged)}

\* C13: the list a matching run returns holds exactly one persisted record
\* for each job whose upsert succeeded in the run and nothing else, in the
\* order in which the jobs were iterated; no job appears twice.
C13_ResultInOrder ==
  \A p \in Sessions :
    RunDone(p) =>
      LET res == result[p][1]
      IN  /\ ReturnedJobIds(p) = {job.id : job \in QualifyingJobs(p)} \ FailedJobIds(p)
          /\ \A i \in DOMAIN res :
               /\ res[i].claimant_id = req[p].claimant_id
               /\ \E k \in DOMAIN matched_jobs :
                    /\ matched_jobs[k].id = res[i].id
                    /\ matched_jobs[k].claimant_id = res[i].claimant_id
                    /\ matched_jobs[k].job_posting_id = res[i].job_posting_id
          /\ \A i, j \in DOMAIN res :
               i < j => PositionOf(p, res[i].job_posting_id)
                          < PositionOf(p, res[j].job_posting_id)

\* a run whose query returned posting 2 before posting 1 returned the two
\* records in that order
C13_Witness ==
  \E p \in Sessions :
    /\ RunDone(p) /\ Len(result[p][1]) = 2
    /\ local[p].all_jobs[1][1].id = 2
    /\ result[p][1][1].job_posting_id = 2
    /\ result[p][1][2].job_posting_id = 1

\* a finished call of the extractor by session p
Extracted(p) == pc[p] = "done" /\ req[p].kind = "extract" /\ result[p] # None

\* the text with every character case-folded and every punctuation character
\* replaced by a space
Normalised(s) == [i \in DOMAIN s |-> Folded(s[i])]

\* the maximal runs of non-whitespace characters of s
Tokens(s) ==
  {SubSeq(s, x[1], x[2]) : x \in
     {y \in (DOMAIN s) \X (DOMAIN s) :
        /\ y[1] <= y[2]
        /\ \A k \in y[1]..y[2] : s[k] \notin Whitespace
        /\ (y[1] = 1 \/ s[y[1] - 1] \in Whitespace)
        /\ (y[2] = Len(s) \/ s[y[2] + 1] \in Whitespace)}}

\* C14: for every input, a null or empty one included, the extractor
\* returns exactly the tokens of the lowercased text with punctuation
\* replaced by spaces, split on whitespace, that have at least three
\* characters and are no stop word; every returned token is lowercase and
\* free of punctuation and whitespace.
C14_ExtractContract ==
  \A p \in Sessions :
    Extracted(p) =>
      LET text == req[p].text
          keywords == result[p][1]
      IN  /\ err[p] = None
          /\ (text = None \/ text = Some(<<>>)) => keywords = {}
          /\ text = Some(TxtAllStopWords) => keywords = {}
          /\ text # None =>
               keywords = {w \in Tokens(Normalised(text[1])) :
                             Len(w) >= 3 /\ w \notin DEFAULT_STOP_WORDS}
          /\ \A w \in keywords :
               /\ Len(w) >= 3
               /\ w \notin DEFAULT_STOP_WORDS
               /\ \A i \in DOMAIN w :
                    w[i] \notin Range(UpperLetters) \cup Punctuation \cup Whitespace

\* a text with an uppercase letter and a punctuation character gave a
\* keyword and lost a token
C14_Witness ==
  /\ Extracted("s1")
  /\ req["s1"].text # None
  /\ \E i, j \in DOMAIN req["s1"].text[1] :
       /\ req["s1"].text[1][i] \in Range(UpperLetters)
       /\ req["s1"].text[1][j] \in Punctuation
  /\ result["s1"][1] # {}
  /\ Tokens(Normalised(req["s1"].text[1])) \ result["s1"][1] # {}

\* C15: the extractor gives the same set for a text and for that text
\* lowercased with every punctuation character replaced by a space, and the
\* same set for repeated calls on one text.
C15_CaseAndPunctuation ==
  (Extracted("s1") /\ Extracted("s2")) =>
    LET t == req["s1"].text
        v == req["s2"].text
    IN  /\ v = t => result["s2"] = result["s1"]
        /\ (t # None /\ v = Some(Normalised(t[1]))) => result["s2"] = result["s1"]
        /\ (t = Some(TxtPythonDeveloperPunct) /\ v = Some(TxtPythonDeveloper))
             => result["s2"] = result["s1"]

\* the calls on 'Python-Developer!' and on 'python developer' both returned
\* the two keywords
C15_Witness ==
  /\ Extracted("s1") /\ Extracted("s2")
  /\ req["s1"].text = Some(TxtPythonDeveloperPunct)
  /\ req["s2"].text = Some(TxtPythonDeveloper)
  /\ Cardinality(result["s1"][1]) = 2
  /\ result["s2"] = result["s1"]

\* the rows of the Match Store of one claimant
RowsOf(claimant_id) ==
  {k \in DOMAIN matched_jobs : matched_jobs[k].claimant_id = claimant_id}

LoadOrFetchRaised(p) == pc[p] \in {"match_load_raised", "match_fetch_raised"}

\* C17: a failure of the claimant load or of the job-pool fetch is not
\* swallowed: the run ends with that error and returns nothing, and no step
\* of the run up to and including its end writes a match record.
C17_LoadFailurePropagates ==
  [][\A p \in Sessions :
       /\ (LoadOrFetchRaised(p) /\ pc'[p] # pc[p]) =>
            /\ pc'[p] = "done"
            /\ err'[p] = Some("OperationalError")
            /\ result'[p] = None
       /\ (pc[p] \in {"idle", "done", "match_load", "match_fetch",
                      "match_load_raised", "match_fetch_raised"}
           /\ pc'[p] # pc[p]) =>
            /\ matched_jobs' = matched_jobs
            /\ local'[p].created = <<>>]_vars

\* a run whose job-pool fetch failed has ended with the error while the
\* other session's run has stored a record
C17_Witness ==
  \E p \in Sessions :
    /\ pc[p] = "done" /\ req[p].kind = "match"
    /\ err[p] = Some("OperationalError") /\ result[p] = None
    /\ local[p].kw # {} /\ local[p].all_jobs = None
    /\ matched_jobs # <<>>

\* what a run for the claimant of session p produces when it executes alone:
\* for every qualifying posting the pair, the overlap as score, status "new"
AloneOutcome(p) ==
  {[claimant_id |-> req[p].claimant_id, job_posting_id |-> job.id,
    match_score |-> Overlap(p, job), status |-> "new"] : job \in QualifyingJobs(p)}

\* pair, score and status of a match record
Outcome(r) ==
  [claimant_id |-> r.claimant_id, job_posting_id |-> r.job_posting_id,
   match_score |-> r.match_score, status |-> r.status]

\* the match records of one claimant, in table order
RecordsOf(rows, claimant_id) ==
  LET Mine(r) == r.claimant_id = claimant_id IN SelectSeq(rows, Mine)

\* C18: matching runs for two different claimants that overlap in time do
\* not interfere: the records of a claimant and the list returned to it are
\* those of a run executing alone, and no step of a run creates or modifies
\* a record of another claimant.
C18_ClaimantsIsolated ==
  /\ [](\A p \in Sessions :
          RunDone(p) =>
            /\ local[p].logged = <<>>
            /\ {Outcome(r) : r \in Range(result[p][1])} = AloneOutcome(p)
            /\ Len(result[p][1]) = Cardinality(AloneOutcome(p))
            /\ {Outcome(r) : r \in Range(RecordsOf(matched_jobs, req[p].claimant_id))}
                 = AloneOutcome(p)
            /\ Len(RecordsOf(matched_jobs, req[p].claimant_id))
                 = Cardinality(AloneOutcome(p)))
  /\ [][\A p \in Sessions :
          (StepOf(p) /\ req'[p].kind = "match") =>
            \A c \in ClaimantIds \ {req'[p].claimant_id} :
              RecordsOf(matched_jobs', c) = RecordsOf(matched_jobs, c)]_vars

\* the runs for claimants 1 and 2 both returned records, and their rows
\* alternate in the table
C18_Witness ==
  /\ RunDone("s1") /\ RunDone("s2")
  /\ req["s1"].claimant_id # req["s2"].claimant_id
  /\ result["s1"][1] # <<>> /\ result["s2"][1] # <<>>
  /\ Len(matched_jobs) >= 3
  /\ matched_jobs[1].claimant_id = matched_jobs[3].claimant_id
  /\ matched_jobs[2].claimant_id # matched_jobs[1].claimant_id

\* the stored claimant with the given id
ClaimantRow(rows, id) == CHOOSE c \in Range(rows) : c.id = id

\* session p takes a step of update_claimant
UpdateStep(p) == pc[p] \in {"uc_load", "uc_commit"} /\ pc'[p] # pc[p]

\* What an update leaves alone whatever the patch: the other tables, the
\* other claimants and the number of claimants; an absent id returns None
\* and changes nothing; a patch that sets no field returns the claimant
\* without reaching the commit; a refused commit changes nothing.
UpdateFrame(p) ==
  LET id == req[p].claimant_id
  IN  /\ UNCHANGED <<claimant_documents, job_postings, matched_jobs>>
      /\ Len(claimants') = Len(claimants)
      /\ \A k \in DOMAIN claimants :
           claimants[k].id # id => claimants'[k] = claimants[k]
      /\ get_claimant(id) = None =>
           /\ claimants' = claimants
           /\ pc'[p] = "done" /\ result'[p] = Some(None) /\ err'[p] = None
      /\ (get_claimant(id) # None /\ DOMAIN req[p].patch = {}) =>
           /\ claimants' = claimants
           /\ pc[p] = "uc_load" /\ pc'[p] = "done"
           /\ result'[p] = Some(ClaimantRow(claimants, id))
      /\ err'[p] # None => claimants' = claimants

\* session p commits an update that is accepted
UpdateCommitted(p) == pc[p] = "uc_commit" /\ pc'[p] = "done" /\ err'[p] = None

\* the supplied fields hold the values of the patch, provided no other
\* session changed the claimant since this one loaded it
SuppliedFieldsSet(p) ==
  LET id == req[p].claimant_id
      old == ClaimantRow(claimants, id)
      new == ClaimantRow(claimants', id)
  IN  /\ result'[p] = Some(new)
      /\ local[p].existing = Some(old) =>
           \A f \in DOMAIN req[p].patch : new[f] = Assigned(f, req[p].patch[f])

\* C19 as stated: an update of an existing claimant changes exactly the
\* fields supplied in the patch and leaves every other field of the
\* claimant, and every other claimant, unchanged; an empty patch changes and
\* commits nothing; an absent id returns absent and changes nothing.
C19_OnlySuppliedFields ==
  [][\A p \in Sessions :
       UpdateStep(p) =>
         /\ UpdateFrame(p)
         /\ UpdateCommitted(p) =>
              /\ SuppliedFieldsSet(p)
              /\ \A f \in DOMAIN ClaimantRow(claimants, req[p].claimant_id)
                          \ DOMAIN req[p].patch :
                   ClaimantRow(claimants', req[p].claimant_id)[f]
                     = ClaimantRow(claimants, req[p].claimant_id)[f]]_vars

\* C19, amended: an update of an existing claimant changes exactly the
\* fields supplied in the patch and the updated_at timestamp, which is
\* refreshed when a supplied field receives a new value; every other field
\* of the claimant and every other claimant are unchanged; an empty patch
\* changes and commits nothing; an absent id returns absent and changes
\* nothing.
C19_SuppliedFieldsAndTimestamp ==
  [][\A p \in Sessions :
       UpdateStep(p) =>
         /\ UpdateFrame(p)
         /\ UpdateCommitted(p) =>
              LET old == ClaimantRow(claimants, req[p].claimant_id)
                  new == ClaimantRow(claimants', req[p].claimant_id)
              IN  /\ SuppliedFieldsSet(p)
                  /\ \A f \in DOMAIN old \ (DOMAIN req[p].patch \cup {"updated_at"}) :
                       new[f] = old[f]
                  /\ new.updated_at \in {old.updated_at, now}
                  /\ local[p].existing = Some(old) =>
                       new.updated_at =
                         IF \E f \in DOMAIN req[p].patch : new[f] # old[f]
                         THEN now ELSE old.updated_at]_vars

\* an update of claimant 1 that supplied name and notes has returned: both
\* are set, the timestamp is refreshed, the other fields are the seeded ones
C19_Witness ==
  \E p \in Sessions :
    /\ pc[p] = "done" /\ req[p].kind = "update_claimant" /\ req[p].claimant_id = 1
    /\ DOMAIN req[p].patch = {"name", "notes"}
    /\ result[p] # None /\ result[p][1] = ClaimantRow(claimants, 1)
    /\ result[p][1].name = "Zed" /\ result[p][1].notes = Some(TxtApi)
    /\ result[p][1].updated_at > 0
    /\ result[p][1].email = "ann@example.com"
    /\ result[p][1].search_keywords = Some(TxtAnnKeywords)

\* C20: adding a document for a claimant id that resolves to no claimant
\* fails with "claimant not found" and stores no document, and every stored
\* document refers to an existing claimant.
C20_DocumentNeedsClaimant ==
  /\ [](\A d \in Range(claimant_documents) :
          \E c \in Range(claimants) : c.id = d.claimant_id)
  /\ [][\A p \in Sessions :
          (/\ pc[p] \in {"ud_check", "ud_commit"} /\ pc'[p] # pc[p]
           /\ get_claimant(req[p].claimant_id) = None) =>
            /\ pc'[p] = "done"
            /\ err'[p] = Some("404 Claimant not found for document upload")
            /\ result'[p] = None
            /\ claimant_documents' = claimant_documents]_vars

\* the upload for claimant 4 was refused while the upload for claimant 1
\* was stored
C20_Witness ==
  \E p \in Sessions :
    /\ pc[p] = "done" /\ req[p].kind = "add_document" /\ req[p].claimant_id = 4
    /\ err[p] = Some("404 Claimant not found for document upload")
    /\ result[p] = None
    /\ Len(claimant_documents) = Len(SeedDocuments) + 1
    /\ claimant_documents[Len(claimant_documents)].claimant_id = 1

\* the parser cannot read the file: its type is not supported, or its bytes
\* are not a document of the declared type
Unreadable(file) ==
  \/ file.mime_type \notin {PdfMime, DocxMime}
  \/ file.mime_type = PdfMime /\ file.format # "pdf"
  \/ file.mime_type = DocxMime /\ file.format # "docx"

\* C21: text extraction never propagates a failure: for an unsupported mime
\* type or bytes the parser fails on, the extracted text is empty, and the
\* upload for an existing claimant still stores the document, with empty
\* raw text.
C21_ExtractionNeverFails ==
  [][\A p \in Sessions :
       (/\ pc[p] = "ud_commit" /\ pc'[p] # pc[p]
        /\ Unreadable(req[p].document.file)) =>
         /\ pc'[p] = "done" /\ err'[p] = None /\ result'[p] # None
         /\ result'[p][1].raw_text_content = Some(<<>>)
         /\ result'[p][1].claimant_id = req[p].claimant_id
         /\ claimant_documents' = Append(claimant_documents, result'[p][1])]_vars

\* the uploads of a text/plain file and of a corrupted PDF for claimant 1
\* are both stored with empty raw text
C21_Witness ==
  /\ pc["s1"] = "done" /\ pc["s2"] = "done"
  /\ req["s1"].kind = "add_document" /\ req["s2"].kind = "add_document"
  /\ req["s1"].document.file.mime_type = "text/plain"
  /\ req["s2"].document.file.format = "corrupt"
  /\ Len(claimant_documents) = Len(SeedDocuments) + 2
  /\ \A k \in DOMAIN claimant_documents :
       k > Len(SeedDocuments) =>
         /\ claimant_documents[k].claimant_id = 1
         /\ claimant_documents[k].raw_text_content = Some(<<>>)

\* the rows at positions skip+1 .. skip+limit of the id-ascending sequence
\* of the given rows
PageById(rows, skip, limit) ==
  LET n == Min(limit, IF Len(rows) > skip THEN Len(rows) - skip ELSE 0)
      Rank(x) == Cardinality({y \in Range(rows) : y.id <= x.id})
  IN  [i \in 1..n |-> CHOOSE x \in Range(rows) : Rank(x) = skip + i]

\* C22: the paginated list operations return records in ascending id
\* order: the Job Store list returns the postings at positions offset ..
\* offset+limit-1 of the id-ascending sequence of all postings, and the
\* Match Store list does the same over the claimant's matches.
C22_ListsAscending ==
  [][\A p \in Sessions :
       /\ (pc[p] = "list_jobs" /\ pc'[p] = "done") =>
            result'[p] = Some(PageById(job_postings, req[p].skip, req[p].limit))
       /\ (pc[p] = "list_matches" /\ pc'[p] = "done") =>
            result'[p] = Some(PageById(RecordsOf(matched_jobs, req[p].claimant_id),
                                       req[p].skip, req[p].limit))]_vars

\* a list of the Job Store with limit 1 returned the posting with id 2
C22_Witness ==
  \E p \in Sessions :
    /\ pc[p] = "done" /\ req[p].kind = "list_jobs"
    /\ req[p].skip = 0 /\ req[p].limit = 1
    /\ result[p] # None /\ Len(result[p][1]) = 1 /\ result[p][1][1].id = 2

\* session p takes the step that loads the claimant and derives the keywords
LoadStep(p) ==
  /\ pc[p] = "match_load" /\ pc'[p] # pc[p]
  /\ get_claimant(req[p].claimant_id) # None

\* the run of session p goes on with the keyword set kw, or returns the
\* empty list when kw is empty
LoadedWith(p, kw) ==
  IF kw = {}
  THEN pc'[p] = "done" /\ result'[p] = Some(<<>>)
  ELSE pc'[p] = "match_fetch" /\ local'[p].kw = kw

\* the documents that count as CV text of the claimant: its own documents
\* tagged "cv" in any letter case whose raw text is present and non-empty
CvDocuments(claimant_id) ==
  {d \in Range(claimant_documents) :
     /\ d.claimant_id = claimant_id
     /\ [i \in DOMAIN d.document_type |-> Folded(d.document_type[i])] = <<"c", "v">>
     /\ d.raw_text_content # None /\ d.raw_text_content # Some(<<>>)}

\* C23: the cv_keywords of a run are extracted from exactly the raw texts of
\* the claimant's own documents tagged "cv" (case-insensitively) whose raw
\* text is present and non-empty; other type tags, empty or absent raw
\* texts and other claimants' documents contribute no keyword.
C23_CvKeywords ==
  [][\A p \in Sessions :
       LoadStep(p) =>
         LoadedWith(p,
           UNION {extract_keywords_from_text(d.raw_text_content) :
                    d \in CvDocuments(req[p].claimant_id)}
           \cup explicit_keyword_set(get_claimant(req[p].claimant_id)[1].search_keywords))]_vars

\* claimant 1 has an uploaded cover letter with the text 'sql api', and its
\* run works with aws, dev and sql only
C23_Witness ==
  \E p \in Sessions :
    /\ InMatchRun(p) /\ req[p].claimant_id = 1
    /\ local[p].kw = {<<"a","w","s">>, <<"d","e","v">>, <<"s","q","l">>}
    /\ \E k \in DOMAIN claimant_documents :
         /\ k > Len(SeedDocuments)
         /\ claimant_documents[k].claimant_id = 1
         /\ claimant_documents[k].document_type = TxtCoverLetter
         /\ claimant_documents[k].raw_text_content = Some(TxtBobCv)

\* the entries between the commas of s
CommaEntries(s) ==
  {SubSeq(s, x[1], x[2]) : x \in
     {y \in (DOMAIN s) \X (DOMAIN s) :
        /\ y[1] <= y[2]
        /\ \A k \in y[1]..y[2] : s[k] # ","
        /\ (y[1] = 1 \/ s[y[1] - 1] = ",")
        /\ (y[2] = Len(s) \/ s[y[2] + 1] = ",")}}

\* C24: explicit_keywords is exactly the set of comma-separated entries of
\* search_keywords, each trimmed and lowercased, empty entries discarded,
\* the empty set for a null or empty field; the run scores with
\* cv_keywords \cup explicit_keywords, so a claimant without CV text but
\* with explicit keywords is matched against the pool.
C24_ExplicitKeywords ==
  [][\A p \in Sessions :
       LoadStep(p) =>
         LET field == get_claimant(req[p].claimant_id)[1].search_keywords
             explicit == IF field = None THEN {}
                         ELSE {Lower(Strip(e)) : e \in CommaEntries(field[1])} \ {<<>>}
         IN  LoadedWith(p, cv_keywords(req[p].claimant_id) \cup explicit)]_vars

\* claimant 3, who has no CV text, was given ' AWS ,dev,,' as search
\* keywords, and its run returned a match
C24_Witness ==
  \E p \in Sessions :
    /\ RunDone(p) /\ req[p].claimant_id = 3
    /\ CvDocuments(3) = {}
    /\ get_claimant(3)[1].search_keywords = Some(TxtAwsDevList)
    /\ local[p].kw = {<<"a","w","s">>, <<"d","e","v">>}
    /\ result[p][1] # <<>>

\* session p writes a match record in this step of its run
WritesRecord(p) ==
  /\ InMatchRun(p) /\ pc[p] = "cm_commit"
  /\ Len(local'[p].created) > Len(local[p].created)

\* the stored row of the record create_matched_job hands back in this step
WrittenRow(p) ==
  CHOOSE r \in Range(matched_jobs') : r.id = CmReturned(p).id

\* C25: the advisor notes of every match record a matching run writes state
\* the score of the record and list min(5, score) distinct keywords, each of
\* them common to the final keywords of the claimant and the keywords of the
\* job; the notes carry the location note exactly when the target location
\* of the claimant is non-empty.
C25_NotesOfWrittenRecord ==
  [][\A p \in Sessions :
       WritesRecord(p) =>
         LET row == WrittenRow(p)
             notes == row.notes_for_advisor[1]
             common == common_keywords(local[p].kw, CurrentJob(p))
             target == ClaimantRow(claimants, req[p].claimant_id).target_location
         IN  /\ row.notes_for_advisor # None
             /\ notes.score = row.match_score
             /\ Len(notes.keywords) = Min(NotesKeywordLimit, row.match_score)
             /\ \A i, j \in DOMAIN notes.keywords :
                  notes.keywords[i] = notes.keywords[j] => i = j
             /\ \A i \in DOMAIN notes.keywords : notes.keywords[i] \in common
             /\ notes.location # None <=> (target # None /\ target[1] # <<>>)]_vars

\* a stored record with more than five common keywords, five of them listed,
\* and the location note
C25_Witness ==
  \E i \in DOMAIN matched_jobs :
    /\ matched_jobs[i].match_score > NotesKeywordLimit
    /\ Len(matched_jobs[i].notes_for_advisor[1].keywords) = NotesKeywordLimit
    /\ matched_jobs[i].notes_for_advisor[1].location # None

\* session p takes a step of a matching run
RunStep(p) == InMatchRun(p) /\ StepOf(p)

\* the posting qualifies in the run of session p: active, passing the
\* location filter, sharing at least MIN_MATCH_SCORE keywords
QualifiesInRun(p, job) ==
  /\ job.is_active
  /\ LocationPasses(local[p].target, job)
  /\ Overlap(p, job) >= MIN_MATCH_SCORE

\* no step removes a match record or moves it to another pair
KeepsRecords ==
  /\ Len(matched_jobs') >= Len(matched_jobs)
  /\ \A i \in DOMAIN matched_jobs :
       /\ matched_jobs'[i].id = matched_jobs[i].id
       /\ matched_jobs'[i].claimant_id = matched_jobs[i].claimant_id
       /\ matched_jobs'[i].job_posting_id = matched_jobs[i].job_posting_id

\* the positions of the Match Store this step adds or changes
Touched ==
  {i \in DOMAIN matched_jobs' :
     IF i \in DOMAIN matched_jobs THEN matched_jobs'[i] # matched_jobs[i] ELSE TRUE}

\* C26: a step of a matching run for claimant c leaves the job postings, the
\* claimants and the documents as they are, and adds or changes only match
\* records of pairs (c, j) with j a posting that qualifies in this run: the
\* records of other claimants and the records of c for postings that do not
\* qualify stay as they are; no step of any operation removes a match record.
C26_RunFrame ==
  [][/\ KeepsRecords
     /\ \A p \in Sessions :
          RunStep(p) =>
            /\ UNCHANGED <<claimants, claimant_documents, job_postings>>
            /\ \A i \in Touched :
                 /\ matched_jobs'[i].claimant_id = req[p].claimant_id
                 /\ \E job \in Range(local[p].all_jobs[1]) :
                      /\ job.id = matched_jobs'[i].job_posting_id
                      /\ QualifiesInRun(p, job)]_vars

\* a finished run that returned records while the store holds a record of
\* its claimant for a posting that did not qualify in it
C26_Witness ==
  \E p \in Sessions :
    /\ RunDone(p) /\ ReturnedJobIds(p) # {}
    /\ \E i \in RowsOf(req[p].claimant_id) :
         matched_jobs[i].job_posting_id \notin {job.id : job \in QualifyingJobs(p)}

\* C27: when two matching runs for the same claimant execute over an
\* unchanged job pool, each of the two runs returns a record for every
\* posting that qualifies, whichever way their steps interleave.
C27_ConcurrentRunsComplete ==
  \A p, q \in Sessions :
    (/\ p # q /\ RunDone(p) /\ RunDone(q)
     /\ req[p].claimant_id = req[q].claimant_id) =>
      {job.id : job \in QualifyingJobs(p)} \subseteq ReturnedJobIds(p)

\* two finished runs for one claimant with qualifying postings in the pool
C27_Witness ==
  \E p, q \in Sessions :
    /\ p # q /\ RunDone(p) /\ RunDone(q)
    /\ req[p].claimant_id = req[q].claimant_id
    /\ QualifyingJobs(p) # {}
    /\ ReturnedJobIds(q) = {job.id : job \in QualifyingJobs(q)}

\* sessions p and q have both finished a create_job_posting call for the
\* same job_url, the only two calls made, and the URL was not stored before
CreatedTogether(p, q) ==
  /\ p # q /\ nreq = 2
  /\ pc[p] = "done" /\ pc[q] = "done"
  /\ req[p].kind = "create_job" /\ req[q].kind = "create_job"
  /\ req[p].job_data.job_url = req[q].job_data.job_url
  /\ \A i \in DOMAIN SeedJobs : SeedJobs[i].job_url # req[p].job_data.job_url

\* C28: when two create_job_posting calls for the same job_url that is not
\* yet stored overlap, both return a posting without error, exactly one of
\* them reports was_created = true, and both return the same record.
C28_ConcurrentCreate ==
  \A p, q \in Sessions :
    CreatedTogether(p, q) =>
      /\ err[p] = None /\ err[q] = None
      /\ result[p] # None /\ result[q] # None
      /\ result[p][1][2] # result[q][1][2]
      /\ result[p][1][1] = result[q][1][1]

\* two finished calls for one new URL, one reporting a creation and the
\* other returning the stored posting
C28_Witness ==
  \E p, q \in Sessions :
    /\ CreatedTogether(p, q)
    /\ result[p] # None /\ result[q] # None
    /\ result[p][1][2] /\ ~result[q][1][2]
    /\ result[p][1][1] = result[q][1][1]

\* runs p and q for one claimant have finished without a failed write after
\* iterating the same job postings in the same order
SameInputs(p, q) ==
  /\ p # q /\ RunDone(p) /\ RunDone(q)
  /\ req[p].claimant_id = req[q].claimant_id
  /\ local[p].kw = local[q].kw /\ local[p].target = local[q].target
  /\ local[p].all_jobs = local[q].all_jobs
  /\ local[p].logged = <<>> /\ local[q].logged = <<>>

\* C29: two matching runs for the same claimant over the same documents and
\* the same job postings, returned in the same order, write and return for
\* every job the same score, the same status and the same advisor notes.
C29_RunsDeterministic ==
  \A p, q \in Sessions :
    SameInputs(p, q) =>
      /\ Len(result[p][1]) = Len(result[q][1])
      /\ \A i \in DOMAIN result[p][1] :
           i \in DOMAIN result[q][1] =>
             /\ result[p][1][i].job_posting_id = result[q][1][i].job_posting_id
             /\ result[p][1][i].match_score = result[q][1][i].match_score
             /\ result[p][1][i].status = result[q][1][i].status
             /\ result[p][1][i].notes_for_advisor = result[q][1][i].notes_for_advisor

\* two runs over the same inputs that returned records with the same notes
C29_Witness ==
  \E p, q \in Sessions :
    /\ SameInputs(p, q)
    /\ result[p][1] # <<>>
    /\ Len(result[p][1]) = Len(result[q][1])
    /\ \A i \in DOMAIN result[p][1] :
         result[p][1][i].notes_for_advisor = result[q][1][i].notes_for_advisor

\* C30: every entry of the stop-word set is filtered: the extractor called
\* on the text of an entry returns the empty set.
C30_StopWordsFiltered ==
  \A p \in Sessions :
    (Extracted(p) /\ req[p].text # None /\ req[p].text[1] \in DEFAULT_STOP_WORDS) =>
      result[p][1] = {}

\* the call on the entry "the" returned the empty set
C30_Witness ==
  \E p \in Sessions :
    /\ Extracted(p)
    /\ req[p].text = Some(<<"t", "h", "e">>)
    /\ result[p][1] = {}
=============================================================================
